---------------------------- MODULE Spec2Model ----------------------------
(***************************************************************************)
(* Model of the C# directive autocomplete extension:                       *)
(* DirectiveCompletionProvider.searchPackages with its time-expiring       *)
(* cache, compareVersions, getVersionCompletions,                          *)
(* createPackageCompletionItem, the classification of the line prefix by   *)
(* provideCompletionItems with the completions of the reference tables,    *)
(* invocations of provideCompletionItems in flight together, and the       *)
(* lookups of DirectiveHoverProvider.                                      *)
(*                                                                         *)
(* Strings are sequences of one-character strings, so toLowerCase, split,  *)
(* Number, startsWith, includes and padStart are computed character by     *)
(* character as the JavaScript runtime computes them.                      *)
(***************************************************************************)
EXTENDS Integers, Sequences, FiniteSets, TLC

(***************************************************************************)
(* Bounds of the model.                                                    *)
(***************************************************************************)
MaxCalls == 2
MaxTicks == 2
MaxSegments == 3
MaxListLen == 3
LongLen == 12
MaxVersionCalls == 2
MaxInvocations == 2

Calls == 1..MaxCalls
Invocations == 1..MaxInvocations

(***************************************************************************)
(* Program constants.                                                      *)
(***************************************************************************)
CACHE_DURATION == 5 * 60 * 1000
TIMEOUT == 5000
VERSION_LIMIT == 10
SORT_TEXT_WIDTH == 20

(***************************************************************************)
(* Strings.                                                                *)
(***************************************************************************)
\* The characters of a string literal, one string per character.
Chars(str) == [i \in 1..Len(str) |-> SubSeq(str, i, i)]

UpperLetters == Chars("ABCDEFGHIJKLMNOPQRSTUVWXYZ")

LowerLetters == Chars("abcdefghijklmnopqrstuvwxyz")

UpperToLower ==
    [c \in {UpperLetters[i] : i \in DOMAIN UpperLetters} |->
        LowerLetters[CHOOSE i \in DOMAIN UpperLetters : UpperLetters[i] = c]]

\* String.prototype.toLowerCase, one character.
ToLowerChar(c) == IF c \in DOMAIN UpperToLower THEN UpperToLower[c] ELSE c

toLowerCase_Identity(s) == s

\* String.prototype.toLowerCase.
toLowerCase(s) == [i \in 1..Len(s) |-> ToLowerChar(s[i])]

\* The queries typed after "#:package ": "js", "Js" and "x".
Queries == { <<"j", "s">>, <<"J", "s">>, <<"x">> }

(***************************************************************************)
(* The remote search service.                                              *)
(***************************************************************************)
\* Items of NuGetSearchResult.data.  An optional field is a sequence of length
\* 0 (absent) or 1 (present).
Item1 ==
    [id |-> "Humanizer", version |-> "2.14.1", description |-> <<"text">>,
     totalDownloads |-> <<500>>, versions |-> <<"2.14.1">>]

Item2 ==
    [id |-> "Json", version |-> "13.0.3", description |-> <<>>,
     totalDownloads |-> <<>>, versions |-> <<"13.0.3">>]

DataArrays == { <<>>, <<Item2, Item1>> }

\* What the awaited axios.get settles with: a response whose body has a data
\* array, a response whose body has none, a transport error, or the timeout.
WellFormed == [kind : {"response"}, data : DataArrays]

Malformed == [kind |-> "response", data |-> "undefined"]

TransportError == [kind |-> "error", data |-> "undefined"]

TimedOut == [kind |-> "timeout", data |-> "undefined"]

Responses == WellFormed \cup { Malformed, TransportError, TimedOut }

\* The mapping of one result item to a NuGetPackage.
MapItem(item) ==
    [id |-> item.id, version |-> item.version,
     description |-> item.description, totalDownloads |-> item.totalDownloads]

\* response.data.data.map(...)
MapItems(data) == [i \in 1..Len(data) |-> MapItem(data[i])]

\* The statements of the try block throw: axios rejected, or .map was called
\* on a body without a data array.
Throws(resp) == resp.kind # "response" \/ resp.data = "undefined"

(***************************************************************************)
(* The cache: two Maps keyed by the lowercased query.                      *)
(***************************************************************************)
\* Map.prototype.set
MapSet(m, k, v) == [x \in (DOMAIN m) \cup {k} |-> IF x = k THEN v ELSE m[x]]

EmptyMap == [x \in {} |-> 0]

CacheValid_AtOrBefore(cache, expiry, cacheKey, now) ==
    /\ cacheKey \in DOMAIN cache
    /\ cacheKey \in DOMAIN expiry
    /\ expiry[cacheKey] >= now

CacheValid_Never(cache, expiry, cacheKey, now) == FALSE

CacheValid_KeyOnly(cache, expiry, cacheKey, now) ==
    /\ cacheKey \in DOMAIN cache
    /\ cacheKey \in DOMAIN expiry

\* The condition of the cache check at the head of searchPackages.
CacheValid(cache, expiry, cacheKey, now) ==
    /\ cacheKey \in DOMAIN cache
    /\ cacheKey \in DOMAIN expiry
    /\ expiry[cacheKey] > now

SearchResume_NoCatch(cache, expiry, cacheKey, now, resp) ==
    IF Throws(resp)
    THEN [packageCache |-> cache, cacheExpiry |-> expiry,
          status |-> "rejected", value |-> <<>>, outcome |-> "failed"]
    ELSE LET packages == MapItems(resp.data)
         IN  [packageCache |-> MapSet(cache, cacheKey, packages),
              cacheExpiry |-> MapSet(expiry, cacheKey, now + CACHE_DURATION),
              status |-> "returned", value |-> packages, outcome |-> "stored"]

SearchResume_CacheOnFailure(cache, expiry, cacheKey, now, resp) ==
    LET packages == IF Throws(resp) THEN <<>> ELSE MapItems(resp.data)
    IN  [packageCache |-> MapSet(cache, cacheKey, packages),
         cacheExpiry |-> MapSet(expiry, cacheKey, now + CACHE_DURATION),
         status |-> "returned", value |-> packages,
         outcome |-> IF Throws(resp) THEN "failed" ELSE "stored"]

SearchResume_NoDuration(cache, expiry, cacheKey, now, resp) ==
    IF Throws(resp)
    THEN [packageCache |-> cache, cacheExpiry |-> expiry,
          status |-> "returned", value |-> <<>>, outcome |-> "failed"]
    ELSE LET packages == MapItems(resp.data)
         IN  [packageCache |-> MapSet(cache, cacheKey, packages),
              cacheExpiry |-> MapSet(expiry, cacheKey, now),
              status |-> "returned", value |-> packages, outcome |-> "stored"]

SearchResume_ForgetOthers(cache, expiry, cacheKey, now, resp) ==
    IF Throws(resp)
    THEN [packageCache |-> cache, cacheExpiry |-> expiry,
          status |-> "returned", value |-> <<>>, outcome |-> "failed"]
    ELSE LET packages == MapItems(resp.data)
         IN  [packageCache |-> MapSet(EmptyMap, cacheKey, packages),
              cacheExpiry |-> MapSet(EmptyMap, cacheKey, now + CACHE_DURATION),
              status |-> "returned", value |-> packages, outcome |-> "stored"]

SearchResume_KeepsExpiry(cache, expiry, cacheKey, now, resp) ==
    IF Throws(resp)
    THEN [packageCache |-> cache, cacheExpiry |-> expiry,
          status |-> "returned", value |-> <<>>, outcome |-> "failed"]
    ELSE LET packages == MapItems(resp.data)
         IN  [packageCache |-> MapSet(cache, cacheKey, packages),
              cacheExpiry |-> IF cacheKey \in DOMAIN expiry THEN expiry
                              ELSE MapSet(expiry, cacheKey, now + CACHE_DURATION),
              status |-> "returned", value |-> packages, outcome |-> "stored"]

SearchResume_EvictOnFailure(cache, expiry, cacheKey, now, resp) ==
    IF Throws(resp)
    THEN [packageCache |-> [x \in (DOMAIN cache) \ {cacheKey} |-> cache[x]],
          cacheExpiry |-> [x \in (DOMAIN expiry) \ {cacheKey} |-> expiry[x]],
          status |-> "returned", value |-> <<>>, outcome |-> "failed"]
    ELSE LET packages == MapItems(resp.data)
         IN  [packageCache |-> MapSet(cache, cacheKey, packages),
              cacheExpiry |-> MapSet(expiry, cacheKey, now + CACHE_DURATION),
              status |-> "returned", value |-> packages, outcome |-> "stored"]

SearchResume_SkipEmpty(cache, expiry, cacheKey, now, resp) ==
    IF Throws(resp)
    THEN [packageCache |-> cache, cacheExpiry |-> expiry,
          status |-> "returned", value |-> <<>>, outcome |-> "failed"]
    ELSE LET packages == MapItems(resp.data)
         IN  IF packages = <<>>
             THEN [packageCache |-> cache, cacheExpiry |-> expiry,
                   status |-> "returned", value |-> <<>>, outcome |-> "stored"]
             ELSE [packageCache |-> MapSet(cache, cacheKey, packages),
                   cacheExpiry |-> MapSet(expiry, cacheKey, now + CACHE_DURATION),
                   status |-> "returned", value |-> packages, outcome |-> "stored"]

SearchResume_DoubleDuration(cache, expiry, cacheKey, now, resp) ==
    IF Throws(resp)
    THEN [packageCache |-> cache, cacheExpiry |-> expiry,
          status |-> "returned", value |-> <<>>, outcome |-> "failed"]
    ELSE LET packages == MapItems(resp.data)
         IN  [packageCache |-> MapSet(cache, cacheKey, packages),
              cacheExpiry |-> MapSet(expiry, cacheKey, now + 2 * CACHE_DURATION),
              status |-> "returned", value |-> packages, outcome |-> "stored"]

\* searchPackages from the point where the awaited request settles: the rest
\* of the try block, or the catch block.  `now` is the local captured before
\* the request was issued.
SearchResume(cache, expiry, cacheKey, now, resp) ==
    IF Throws(resp)
    THEN [packageCache |-> cache, cacheExpiry |-> expiry,
          status |-> "returned", value |-> <<>>, outcome |-> "failed"]
    ELSE LET packages == MapItems(resp.data)
         IN  [packageCache |-> MapSet(cache, cacheKey, packages),
              cacheExpiry |-> MapSet(expiry, cacheKey, now + CACHE_DURATION),
              status |-> "returned", value |-> packages, outcome |-> "stored"]

(***************************************************************************)
(* Version strings and compareVersions.                                    *)
(***************************************************************************)
Digits == <<"0", "1", "2", "3", "4", "5", "6", "7", "8", "9">>

IsDigit(ch) == \E i \in 1..Len(Digits) : Digits[i] = ch

DigitValue(ch) == (CHOOSE i \in 1..Len(Digits) : Digits[i] = ch) - 1

\* The decimal numeral of a natural number, as String(n) writes it.
RECURSIVE NatToString(_)
NatToString(n) ==
    IF n < 10 THEN << Digits[n + 1] >>
    ELSE NatToString(n \div 10) \o << Digits[(n % 10) + 1] >>

\* Array.prototype.join(".") of the numerals of a sequence of naturals.
RECURSIVE FormatVersion(_)
FormatVersion(ints) ==
    IF Len(ints) = 1 THEN NatToString(ints[1])
    ELSE FormatVersion(SubSeq(ints, 1, Len(ints) - 1))
             \o <<".">> \o NatToString(ints[Len(ints)])

\* String.prototype.split with a one-character separator.
RECURSIVE Split(_, _)
Split(s, sep) ==
    IF \A i \in 1..Len(s) : s[i] # sep THEN << s >>
    ELSE LET i == CHOOSE j \in 1..Len(s) :
                      s[j] = sep /\ \A k \in 1..(j - 1) : s[k] # sep
         IN  << SubSeq(s, 1, i - 1) >> \o Split(SubSeq(s, i + 1, Len(s)), sep)

\* The value of a string of decimal digits.
RECURSIVE DecimalValue(_)
DecimalValue(s) ==
    IF s = <<>> THEN 0
    ELSE 10 * DecimalValue(SubSeq(s, 1, Len(s) - 1)) + DigitValue(s[Len(s)])

\* Number(s) for a string of digits, dots, hyphens and letters: the empty
\* string is 0, a string of digits is its value, anything else is NaN.
Number(s) ==
    IF \A i \in 1..Len(s) : IsDigit(s[i])
    THEN [kind |-> "number", val |-> DecimalValue(s)]
    ELSE [kind |-> "NaN", val |-> 0]

\* parts[i] for a zero-based index i: undefined beyond the end of the array.
PartAt(parts, i) ==
    IF i + 1 <= Len(parts) THEN parts[i + 1] ELSE [kind |-> "undefined", val |-> 0]

\* x || 0 for x a number, NaN or undefined.
OrZero(x) == IF x.kind = "number" THEN x.val ELSE 0

Max(m, n) == IF m >= n THEN m ELSE n

Min(m, n) == IF m <= n THEN m ELSE n

\* The loop of compareVersions from index i, over indexes below bound.
RECURSIVE CompareFrom(_, _, _, _)
CompareFrom(partsA, partsB, i, bound) ==
    IF i >= bound THEN 0
    ELSE LET partA == OrZero(PartAt(partsA, i))
             partB == OrZero(PartAt(partsB, i))
         IN  IF partA # partB THEN partA - partB
             ELSE CompareFrom(partsA, partsB, i + 1, bound)

\* a.split(".").map(Number)
VersionParts(v) ==
    LET segments == Split(v, ".")
    IN  [i \in 1..Len(segments) |-> Number(segments[i])]

compareVersions_LoopOverA(a, b) ==
    CompareFrom(VersionParts(a), VersionParts(b), 0, Len(VersionParts(a)))

compareVersions_Reversed(a, b) ==
    CompareFrom(VersionParts(b), VersionParts(a), 0,
                Max(Len(VersionParts(a)), Len(VersionParts(b))))

\* DirectiveCompletionProvider.compareVersions
compareVersions(a, b) ==
    CompareFrom(VersionParts(a), VersionParts(b), 0,
                Max(Len(VersionParts(a)), Len(VersionParts(b))))

(***************************************************************************)
(* getVersionCompletions.                                                  *)
(***************************************************************************)
\* String.prototype.includes for a one-character argument.
Includes(s, ch) == \E i \in 1..Len(s) : s[i] = ch

\* String.prototype.startsWith
StartsWith(s, p) == Len(p) <= Len(s) /\ SubSeq(s, 1, Len(p)) = p

\* versions.filter((v) => !v.includes("-") && v.startsWith(versionPrefix))
RECURSIVE FilterVersions(_, _)
FilterVersions(versions, versionPrefix) ==
    IF versions = <<>> THEN <<>>
    ELSE LET v == Head(versions)
             rest == FilterVersions(Tail(versions), versionPrefix)
         IN  IF ~Includes(v, "-") /\ StartsWith(v, versionPrefix)
             THEN <<v>> \o rest ELSE rest

\* The comparator handed to sort: (a, b) => this.compareVersions(b, a)
SortComparator(a, b) == compareVersions(b, a)

\* x placed into a sorted array before the first element it must precede.
RECURSIVE InsertSorted(_, _)
InsertSorted(x, sorted) ==
    IF sorted = <<>> THEN <<x>>
    ELSE IF SortComparator(x, Head(sorted)) < 0 THEN <<x>> \o sorted
    ELSE <<Head(sorted)>> \o InsertSorted(x, Tail(sorted))

\* Array.prototype.sort, which is stable, with SortComparator.
RECURSIVE SortVersions(_)
SortVersions(versions) ==
    IF versions = <<>> THEN <<>>
    ELSE InsertSorted(versions[Len(versions)],
                      SortVersions(SubSeq(versions, 1, Len(versions) - 1)))

\* Array.prototype.slice(0, n)
SliceFirst(arr, n) == SubSeq(arr, 1, Min(n, Len(arr)))

FilteredVersions_Unsorted(versions, versionPrefix) ==
    SliceFirst(FilterVersions(versions, versionPrefix), VERSION_LIMIT)

\* The filter, sort, slice chain of getVersionCompletions.
FilteredVersions(versions, versionPrefix) ==
    SliceFirst(SortVersions(FilterVersions(versions, versionPrefix)), VERSION_LIMIT)

\* String.prototype.padStart with a one-character filler.
PadStart(s, width, ch) ==
    IF Len(s) >= width THEN s ELSE [i \in 1..(width - Len(s)) |-> ch] \o s

VersionWord == <<"V", "e", "r", "s", "i", "o", "n", " ">>

\* The completion item built for one version.
VersionItem(version) ==
    [label |-> version, insertText |-> version,
     detail |-> VersionWord \o version,
     sortText |-> PadStart(version, SORT_TEXT_WIDTH, "0")]

\* The version strings of the index: stable releases, one pre-release, and
\* "1.0", which compares equal to "1.0.0".
Beta == <<"-", "b", "e", "t", "a">>

VersionPool ==
    { FormatVersion(<<1, 0, 0>>), FormatVersion(<<1, 0, 0>>) \o Beta,
      FormatVersion(<<1, 1, 0>>), FormatVersion(<<2, 0, 0>>),
      FormatVersion(<<1, 10, 0>>), FormatVersion(<<1, 0>>) }

\* ["1.0.0", "1.0.0-beta", "1.1.0", "2.0.0"]
ExampleList ==
    << FormatVersion(<<1, 0, 0>>), FormatVersion(<<1, 0, 0>>) \o Beta,
       FormatVersion(<<1, 1, 0>>), FormatVersion(<<2, 0, 0>>) >>

\* "1.0", "1.1", ... in ascending order, and the same versions out of order.
AscendingList == [i \in 1..LongLen |-> FormatVersion(<<1, i - 1>>)]

ScrambledList == [i \in 1..LongLen |-> FormatVersion(<<1, (i * 5) % LongLen>>)]

VersionLists ==
    UNION { [1..k -> VersionPool] : k \in 0..MaxListLen }
        \cup { ExampleList, AscendingList, ScrambledList }

\* The partial versions typed after "@": "", "1", "1.1" and "2.".
Prefixes == { <<>>, <<"1">>, <<"1", ".", "1">>, <<"2", ".">> }

\* The package ids typed before "@".
PackageIds == { <<"J", "s">>, <<"x">> }

\* What the awaited request for the version index settles with.
VersionsWellFormed ==
    [kind : {"response"}, hasVersions : {TRUE}, versions : VersionLists]

VersionsMissing == [kind |-> "response", hasVersions |-> FALSE, versions |-> <<>>]

VersionsError == [kind |-> "error", hasVersions |-> FALSE, versions |-> <<>>]

VersionsTimedOut == [kind |-> "timeout", hasVersions |-> FALSE, versions |-> <<>>]

\* A response whose body is not a usable index: no body, or a versions
\* member that is not an array of strings.  Reading it throws a TypeError
\* inside the try block.
VersionsGarbled == [kind |-> "garbled", hasVersions |-> FALSE, versions |-> <<>>]

VersionResume_NoCatch(versionPrefix, resp) ==
    IF resp.kind # "response"
    THEN [status |-> "rejected", items |-> <<>>]
    ELSE LET versions == IF resp.hasVersions THEN resp.versions ELSE <<>>
             filteredVersions == FilteredVersions(versions, versionPrefix)
         IN  [status |-> "returned",
              items |-> [i \in 1..Len(filteredVersions) |->
                            VersionItem(filteredVersions[i])]]

\* getVersionCompletions from the point where the awaited request settles.
VersionResume(versionPrefix, resp) ==
    IF resp.kind # "response"
    THEN [status |-> "returned", items |-> <<>>]
    ELSE LET versions == IF resp.hasVersions THEN resp.versions ELSE <<>>
             filteredVersions == FilteredVersions(versions, versionPrefix)
         IN  [status |-> "returned",
              items |-> [i \in 1..Len(filteredVersions) |->
                            VersionItem(filteredVersions[i])]]

(***************************************************************************)
(* createPackageCompletionItem.                                            *)
(***************************************************************************)
SORT_BASE == 999999999
PACKAGE_SORT_WIDTH == 10

\* String(n) for an integer n.
IntToString(n) == IF n < 0 THEN <<"-">> \o NatToString(-n) ELSE NatToString(n)

\* pkg.totalDownloads is truthy: present and not 0.
HasDownloads(pkg) == pkg.totalDownloads # <<>> /\ pkg.totalDownloads[1] # 0

NoDownloadsSortText == [i \in 1..PACKAGE_SORT_WIDTH |-> "9"]

\* item.sortText
PackageSortText(pkg) ==
    IF HasDownloads(pkg)
    THEN PadStart(IntToString(SORT_BASE - pkg.totalDownloads[1]),
                  PACKAGE_SORT_WIDTH, "0")
    ELSE NoDownloadsSortText

\* The completion item built for one package: its label, insert text and
\* sort text.
createPackageCompletionItem(pkg) ==
    [label |-> pkg.id,
     insertText |-> pkg.id \o "@" \o pkg.version,
     sortText |-> PackageSortText(pkg)]

\* The totalDownloads of a package record: absent, 0, or a count up to and
\* beyond one thousand million.
DownloadCounts ==
    { <<>>, <<0>>, <<1>>, <<500>>, <<999999998>>, <<999999999>>,
      <<1000000000>>, <<1000000001>> }

\* A package record with the given totalDownloads.
PackageWith(id, downloads) ==
    [id |-> id, version |-> "1.0.0", description |-> <<>>,
     totalDownloads |-> downloads]

(***************************************************************************)
(* The regular expressions of provideCompletionItems.  A match is a record *)
(* with the captured groups; every group of these expressions takes part   *)
(* in every match, so a group is never undefined.                          *)
(***************************************************************************)
\* \s, for the white space a line prefix can hold.
IsSpaceChar(ch) == ch \in {" ", "\t"}

IsLetter(ch) ==
    \E i \in DOMAIN UpperLetters : UpperLetters[i] = ch \/ LowerLetters[i] = ch

\* \w
IsWordChar(ch) == IsLetter(ch) \/ IsDigit(ch) \/ ch = "_"

\* [^@\s]
IsNameChar(ch) == ch # "@" /\ ~IsSpaceChar(ch)

\* The character classes of the expressions, by name.
InClass(ch, class) ==
    CASE class = "\\s" -> IsSpaceChar(ch)
      [] class = "\\w" -> IsWordChar(ch)
      [] class = "[^@\\s]" -> IsNameChar(ch)

\* The position after the longest run of characters of a class that starts
\* at position from: what a greedy * or + of the class consumes.
RunEnd(s, from, class) ==
    CHOOSE j \in from..(Len(s) + 1) :
        /\ \A k \in from..(j - 1) : InClass(s[k], class)
        /\ j = Len(s) + 1 \/ ~InClass(s[j], class)

NoMatch == [matched |-> FALSE, groups |-> <<>>]

Match(groups) == [matched |-> TRUE, groups |-> groups]

\* \w+(?:\.\w+)* matches the whole of s.
IsDottedWords(s) ==
    /\ s # <<>>
    /\ \A i \in 1..Len(s) : IsWordChar(s[i]) \/ s[i] = "."
    /\ s[1] # "."
    /\ s[Len(s)] # "."
    /\ \A i \in 1..(Len(s) - 1) : ~(s[i] = "." /\ s[i + 1] = ".")

\* The position after "#:<directive>\s+", or 0 when the line prefix does not
\* start with the directive followed by white space.
AfterDirective(linePrefix, directive) ==
    LET head == Chars("#:") \o Chars(directive)
    IN  IF ~StartsWith(linePrefix, head) THEN 0
        ELSE LET b == RunEnd(linePrefix, Len(head) + 1, "\\s")
             IN  IF b = Len(head) + 1 THEN 0 ELSE b

\* linePrefix.match(/^#:package\s+([^@\s]*)/)
packageMatch(linePrefix) ==
    LET b == AfterDirective(linePrefix, "package")
    IN  IF b = 0 THEN NoMatch
        ELSE Match(<< SubSeq(linePrefix, b, RunEnd(linePrefix, b, "[^@\\s]") - 1) >>)

\* linePrefix.match(/^#:package\s+(\w+(?:\.\w+)*)@(.*)$/)
packageVersionMatch(linePrefix) ==
    LET b == AfterDirective(linePrefix, "package")
    IN  IF b = 0 \/ \A i \in b..Len(linePrefix) : linePrefix[i] # "@" THEN NoMatch
        ELSE LET at == CHOOSE i \in b..Len(linePrefix) :
                           /\ linePrefix[i] = "@"
                           /\ \A k \in b..(i - 1) : linePrefix[k] # "@"
                 packageId == SubSeq(linePrefix, b, at - 1)
             IN  IF IsDottedWords(packageId)
                 THEN Match(<< packageId, SubSeq(linePrefix, at + 1, Len(linePrefix)) >>)
                 ELSE NoMatch

\* linePrefix.match(/^#:sdk\s+(.*)$/)
sdkMatch(linePrefix) ==
    LET b == AfterDirective(linePrefix, "sdk")
    IN  IF b = 0 THEN NoMatch
        ELSE Match(<< SubSeq(linePrefix, b, Len(linePrefix)) >>)

\* linePrefix.match(/^#:property\s+(\w*)\s*(.*)$/)
propertyMatch(linePrefix) ==
    LET b == AfterDirective(linePrefix, "property")
    IN  IF b = 0 THEN NoMatch
        ELSE LET c == RunEnd(linePrefix, b, "\\w")
                 d == RunEnd(linePrefix, c, "\\s")
             IN  Match(<< SubSeq(linePrefix, b, c - 1),
                          SubSeq(linePrefix, d, Len(linePrefix)) >>)

\* linePrefix.match(/^#:(\w*)$/)
directivePrefix(linePrefix) ==
    IF /\ StartsWith(linePrefix, Chars("#:"))
       /\ \A i \in 3..Len(linePrefix) : IsWordChar(linePrefix[i])
    THEN Match(<< SubSeq(linePrefix, 3, Len(linePrefix)) >>)
    ELSE NoMatch

\* propertyName && propertyValue !== undefined, for the groups of a match of
\* propertyMatch: the second group is a string, never undefined.
PropertyValueContext(propertyName, propertyValue) == propertyName # <<>>

\* The helper provideCompletionItems hands the line prefix to, with its
\* arguments.
Route(linePrefix) ==
    IF packageMatch(linePrefix).matched
    THEN IF packageVersionMatch(linePrefix).matched
         THEN [helper |-> "getVersionCompletions",
               arg1 |-> packageVersionMatch(linePrefix).groups[1],
               arg2 |-> packageVersionMatch(linePrefix).groups[2]]
         ELSE [helper |-> "getPackageCompletions",
               arg1 |-> packageMatch(linePrefix).groups[1], arg2 |-> <<>>]
    ELSE IF sdkMatch(linePrefix).matched
    THEN [helper |-> "getSdkCompletions",
          arg1 |-> sdkMatch(linePrefix).groups[1], arg2 |-> <<>>]
    ELSE IF propertyMatch(linePrefix).matched
    THEN LET propertyName == propertyMatch(linePrefix).groups[1]
             propertyValue == propertyMatch(linePrefix).groups[2]
         IN  IF PropertyValueContext(propertyName, propertyValue)
             THEN [helper |-> "getPropertyValueCompletions",
                   arg1 |-> propertyName, arg2 |-> propertyValue]
             ELSE [helper |-> "getPropertyNameCompletions",
                   arg1 |-> propertyName, arg2 |-> <<>>]
    ELSE IF directivePrefix(linePrefix).matched
    THEN [helper |-> "getDirectiveCompletions",
          arg1 |-> directivePrefix(linePrefix).groups[1], arg2 |-> <<>>]
    ELSE [helper |-> "none", arg1 |-> <<>>, arg2 |-> <<>>]

(***************************************************************************)
(* The reference tables of the completion provider and the completions     *)
(* built from them.                                                        *)
(***************************************************************************)
COMMON_SDKS ==
    <<
    [id |-> "Microsoft.NET.Sdk",
     displayName |-> "Console/Library SDK",
     description |->
         "Default SDK for console applications and class libraries",
     defaultTargetFramework |-> <<"net10.0">>],
    [id |-> "Microsoft.NET.Sdk.Web",
     displayName |-> "Web SDK",
     description |->
         "SDK for ASP.NET Core applications, Web APIs, and Blazor apps",
     defaultTargetFramework |-> <<>>],
    [id |-> "Microsoft.NET.Sdk.Worker",
     displayName |-> "Worker SDK",
     description |->
         "SDK for background service applications and hosted services",
     defaultTargetFramework |-> <<>>],
    [id |-> "Microsoft.NET.Sdk.WindowsDesktop",
     displayName |-> "Windows Desktop SDK",
     description |->
         "SDK for WPF and Windows Forms applications",
     defaultTargetFramework |-> <<>>],
    [id |-> "Microsoft.NET.Sdk.Razor",
     displayName |-> "Razor SDK",
     description |->
         "SDK for Razor class libraries and components",
     defaultTargetFramework |-> <<>>],
    [id |-> "Microsoft.NET.Sdk.BlazorWebAssembly",
     displayName |-> "Blazor WebAssembly SDK",
     description |->
         "SDK for Blazor WebAssembly applications",
     defaultTargetFramework |-> <<>>]
    >>

COMMON_PROPERTIES ==
    <<
    [name |-> "LangVersion",
     description |-> "C# language version to use",
     possibleValues |-> << << "latest", "preview", "12", "11", "10", "9", "8", "7.3",
                              "7.2", "7.1", "7" >> >>,
     defaultValue |-> <<"latest">>],
    [name |-> "TargetFramework",
     description |-> "Target framework for the application",
     possibleValues |-> << << "net10.0", "net9.0", "net8.0", "net7.0", "net6.0",
                              "netstandard2.1", "netstandard2.0" >> >>,
     defaultValue |-> <<"net10.0">>],
    [name |-> "Nullable",
     description |-> "Nullable reference types setting",
     possibleValues |-> << << "enable", "disable", "warnings", "annotations" >> >>,
     defaultValue |-> <<"enable">>],
    [name |-> "ImplicitUsings",
     description |-> "Enable implicit using statements",
     possibleValues |-> << << "enable", "disable" >> >>,
     defaultValue |-> <<"enable">>],
    [name |-> "TreatWarningsAsErrors",
     description |-> "Treat compiler warnings as errors",
     possibleValues |-> << << "true", "false" >> >>,
     defaultValue |-> <<"false">>],
    [name |-> "WarningLevel",
     description |-> "Compiler warning level",
     possibleValues |-> << << "0", "1", "2", "3", "4", "5" >> >>,
     defaultValue |-> <<"4">>],
    [name |-> "OutputType",
     description |-> "Type of output to generate",
     possibleValues |-> << << "Exe", "Library", "Module", "Winexe" >> >>,
     defaultValue |-> <<"Exe">>],
    [name |-> "PublishAot",
     description |-> "Enable ahead-of-time compilation for publishing",
     possibleValues |-> << << "true", "false" >> >>,
     defaultValue |-> <<"false">>],
    [name |-> "InvariantGlobalization",
     description |-> "Enable invariant globalization mode",
     possibleValues |-> << << "true", "false" >> >>,
     defaultValue |-> <<"false">>],
    [name |-> "EnablePreviewFeatures",
     description |-> "Enable preview language and runtime features",
     possibleValues |-> << << "true", "false" >> >>,
     defaultValue |-> <<"false">>]
    >>

directives ==
    <<
    [name |-> "package", description |-> "Reference a NuGet package",
     example |-> "#:package Humanizer@2.14.1"],
    [name |-> "sdk", description |-> "Specify the SDK to use",
     example |-> "#:sdk Microsoft.NET.Sdk.Web"],
    [name |-> "property", description |-> "Set MSBuild properties",
     example |-> "#:property LangVersion preview"]
    >>

\* String.prototype.includes
IncludesString(s, sub) ==
    \E i \in 1..(Len(s) - Len(sub) + 1) : SubSeq(s, i, i + Len(sub) - 1) = sub

getDirectiveCompletions(prefix) ==
    LET kept == SelectSeq(directives, LAMBDA d : StartsWith(Chars(d.name), prefix))
    IN  [i \in 1..Len(kept) |->
            [label |-> kept[i].name, insertText |-> kept[i].name \o " ",
             detail |-> kept[i].description]]

getSdkCompletions(query) ==
    LET kept == SelectSeq(COMMON_SDKS,
                    LAMBDA sdk : IncludesString(toLowerCase(Chars(sdk.id)),
                                                toLowerCase(query)))
    IN  [i \in 1..Len(kept) |->
            [label |-> kept[i].id, insertText |-> kept[i].id,
             detail |-> kept[i].displayName]]

getPropertyNameCompletions(query) ==
    LET kept == SelectSeq(COMMON_PROPERTIES,
                    LAMBDA prop : IncludesString(toLowerCase(Chars(prop.name)),
                                                 toLowerCase(query)))
    IN  [i \in 1..Len(kept) |->
            [label |-> kept[i].name, insertText |-> kept[i].name \o " ",
             detail |-> kept[i].description]]

getPropertyValueCompletions_CaseSensitive(propertyName, valuePrefix) ==
    LET found == SelectSeq(COMMON_PROPERTIES,
                     LAMBDA p : Chars(p.name) = propertyName)
    IN  IF found = <<>> \/ found[1].possibleValues = <<>> THEN <<>>
        ELSE LET property == found[1]
                 kept == SelectSeq(property.possibleValues[1],
                             LAMBDA v : StartsWith(Chars(v), valuePrefix))
             IN  [i \in 1..Len(kept) |->
                     [label |-> kept[i], insertText |-> kept[i],
                      detail |-> property.name \o " value" \o
                          (IF << kept[i] >> = property.defaultValue
                           THEN " (default)" ELSE "")]]

getPropertyValueCompletions(propertyName, valuePrefix) ==
    LET found == SelectSeq(COMMON_PROPERTIES,
                     LAMBDA p : Chars(p.name) = propertyName)
    IN  IF found = <<>> \/ found[1].possibleValues = <<>> THEN <<>>
        ELSE LET property == found[1]
                 kept == SelectSeq(property.possibleValues[1],
                             LAMBDA v : StartsWith(toLowerCase(Chars(v)),
                                                   toLowerCase(valuePrefix)))
             IN  [i \in 1..Len(kept) |->
                     [label |-> kept[i], insertText |-> kept[i],
                      detail |-> property.name \o " value" \o
                          (IF << kept[i] >> = property.defaultValue
                           THEN " (default)" ELSE "")]]

getPackageCompletions_NoGuard(query) == FALSE

\* if (!query) return []; at the head of getPackageCompletions.
getPackageCompletions_Guard(query) == query = <<>>

PackageItems_PopularOnly(packages) ==
    LET kept == SelectSeq(packages, HasDownloads)
    IN  [i \in 1..Len(kept) |-> createPackageCompletionItem(kept[i])]

\* packages.map((pkg) => this.createPackageCompletionItem(pkg))
PackageItems(packages) ==
    [i \in 1..Len(packages) |-> createPackageCompletionItem(packages[i])]

(***************************************************************************)
(* The reference tables of the hover provider.                             *)
(***************************************************************************)
findSdkInfo_COMMON_SDKS ==
    <<
    [id |-> "Microsoft.NET.Sdk",
     displayName |-> "Console/Library SDK",
     description |->
         "Default SDK for console applications and class libraries",
     defaultTargetFramework |-> <<"net10.0">>],
    [id |-> "Microsoft.NET.Sdk.Web",
     displayName |-> "Web SDK",
     description |->
         "SDK for ASP.NET Core applications, Web APIs, and Blazor apps",
     defaultTargetFramework |-> <<>>],
    [id |-> "Microsoft.NET.Sdk.Worker",
     displayName |-> "Worker SDK",
     description |->
         "SDK for background service applications and hosted services",
     defaultTargetFramework |-> <<>>],
    [id |-> "Microsoft.NET.Sdk.WindowsDesktop",
     displayName |-> "Windows Desktop SDK",
     description |->
         "SDK for WPF and Windows Forms applications",
     defaultTargetFramework |-> <<>>],
    [id |-> "Microsoft.NET.Sdk.Razor",
     displayName |-> "Razor SDK",
     description |->
         "SDK for Razor class libraries and components",
     defaultTargetFramework |-> <<>>],
    [id |-> "Microsoft.NET.Sdk.BlazorWebAssembly",
     displayName |-> "Blazor WebAssembly SDK",
     description |->
         "SDK for Blazor WebAssembly applications",
     defaultTargetFramework |-> <<>>]
    >>

findPropertyInfo_COMMON_PROPERTIES ==
    <<
    [name |-> "LangVersion",
     description |-> "C# language version to use",
     possibleValues |-> << << "latest", "preview", "12", "11", "10", "9", "8", "7.3",
                              "7.2", "7.1", "7" >> >>,
     defaultValue |-> <<"latest">>],
    [name |-> "TargetFramework",
     description |-> "Target framework for the application",
     possibleValues |-> << << "net10.0", "net9.0", "net8.0", "net7.0", "net6.0",
                              "netstandard2.1", "netstandard2.0" >> >>,
     defaultValue |-> <<"net10.0">>],
    [name |-> "Nullable",
     description |-> "Nullable reference types setting",
     possibleValues |-> << << "enable", "disable", "warnings", "annotations" >> >>,
     defaultValue |-> <<"enable">>],
    [name |-> "ImplicitUsings",
     description |-> "Enable implicit using statements",
     possibleValues |-> << << "enable", "disable" >> >>,
     defaultValue |-> <<"enable">>],
    [name |-> "TreatWarningsAsErrors",
     description |-> "Treat compiler warnings as errors",
     possibleValues |-> << << "true", "false" >> >>,
     defaultValue |-> <<"false">>],
    [name |-> "WarningLevel",
     description |-> "Compiler warning level",
     possibleValues |-> << << "0", "1", "2", "3", "4", "5" >> >>,
     defaultValue |-> <<"4">>],
    [name |-> "OutputType",
     description |-> "Type of output to generate",
     possibleValues |-> << << "Exe", "Library", "Module", "Winexe" >> >>,
     defaultValue |-> <<"Exe">>],
    [name |-> "PublishAot",
     description |-> "Enable ahead-of-time compilation for publishing",
     possibleValues |-> << << "true", "false" >> >>,
     defaultValue |-> <<"false">>],
    [name |-> "InvariantGlobalization",
     description |-> "Enable invariant globalization mode",
     possibleValues |-> << << "true", "false" >> >>,
     defaultValue |-> <<"false">>],
    [name |-> "EnablePreviewFeatures",
     description |-> "Enable preview language and runtime features",
     possibleValues |-> << << "true", "false" >> >>,
     defaultValue |-> <<"false">>]
    >>

\* DirectiveHoverProvider.findSdkInfo: the entry in a sequence of length 1,
\* or the empty sequence for undefined.
findSdkInfo(sdkId) ==
    LET found == SelectSeq(findSdkInfo_COMMON_SDKS,
                     LAMBDA sdk : Chars(sdk.id) = sdkId)
    IN  IF found = <<>> THEN <<>> ELSE << found[1] >>

findPropertyInfo_IgnoreCase(propertyName) ==
    LET found == SelectSeq(findPropertyInfo_COMMON_PROPERTIES,
                     LAMBDA prop : toLowerCase(Chars(prop.name))
                                       = toLowerCase(propertyName))
    IN  IF found = <<>> THEN <<>> ELSE << found[1] >>

\* DirectiveHoverProvider.findPropertyInfo
findPropertyInfo(propertyName) ==
    LET found == SelectSeq(findPropertyInfo_COMMON_PROPERTIES,
                     LAMBDA prop : Chars(prop.name) = propertyName)
    IN  IF found = <<>> THEN <<>> ELSE << found[1] >>

(***************************************************************************)
(* State.                                                                  *)
(***************************************************************************)
VARIABLES
    packageCache,   \* this.packageCache
    cacheExpiry,    \* this.cacheExpiry
    clock,          \* Date.now(), in ms since the provider was constructed
    ticks,          \* number of clock advances so far
    pc,             \* per searchPackages call: "idle", "awaiting", "done"
    query,          \* per call: the argument
    now,            \* per call: the local `now`
    status,         \* per call: "pending", "returned" or "rejected"
    value,          \* per call: the array the promise resolved with
    outcome,        \* per call: "none", "hit", "stored" or "failed"
    requested,      \* the calls that issued an HTTP request
    storedAt,       \* per cache key: the clock when its entry was last written
    doneBefore,     \* per call: the calls already settled when it started
    vPc,            \* getVersionCompletions: "idle", "awaiting", "done"
    vPackageId,     \* its argument packageId
    vPrefix,        \* its argument versionPrefix
    vUrlId,         \* the package id in the URL of its request
    vSettled,       \* what its request settled with
    vVersions,      \* the versions array of the response
    vStatus,        \* "pending", "returned" or "rejected"
    vItems,         \* the completion items it resolved with
    vRequests,      \* the number of version-index requests issued
    vCalls,         \* the number of calls of getVersionCompletions
    vRepeat,        \* the call has the arguments of the call before it
    cmpPc,          \* compareVersions: "input", "done"
    intsA,          \* the integer segments of the first operand
    intsB,          \* the integer segments of the second operand
    verA,           \* the first operand
    verB,           \* the second operand
    cmpAB,          \* compareVersions(verA, verB)
    cmpBA,          \* compareVersions(verB, verA)
    cmpAA,          \* compareVersions(verA, verA)
    rankPc,         \* createPackageCompletionItem on two packages: "input", "done"
    pkgA,           \* the first package
    pkgB,           \* the second package
    itemA,          \* the item built for the first package
    itemB,          \* the item built for the second package
    rPc,            \* provideCompletionItems: "idle", "awaitSearch",
                    \* "awaitVersions" or "done"
    rLine,          \* its line prefix
    rRoute,         \* the helper it handed the line prefix to
    rItems,         \* the completion items it resolved with
    rCall,          \* the searchPackages call it made, 0 for none
    rData,          \* the data array of the search response it received
    hPc,            \* the hover lookups: "input", "done"
    hSdkId,         \* the argument of findSdkInfo
    hPropertyName,  \* the argument of findPropertyInfo
    hSdkInfo,       \* the result of findSdkInfo
    hPropertyInfo,  \* the result of findPropertyInfo
    cPc,            \* per provideCompletionItems invocation: "idle",
                    \* "awaitSearch", "awaitVersions", "done"
    cLine,          \* per invocation: linePrefix
    cNow,           \* per invocation: the local `now` of its searchPackages
    cStatus,        \* per invocation: "pending", "resolved" or "rejected"
    cItems          \* per invocation: the items its promise resolved with

searchVars ==
    << packageCache, cacheExpiry, clock, ticks, pc, query, now, status, value,
       outcome, requested, storedAt, doneBefore >>

versionVars ==
    << vPc, vPackageId, vPrefix, vUrlId, vSettled, vVersions, vStatus, vItems,
       vRequests, vCalls, vRepeat >>

compareVars == << cmpPc, intsA, intsB, verA, verB, cmpAB, cmpBA, cmpAA >>

rankVars == << rankPc, pkgA, pkgB, itemA, itemB >>

resolverVars == << rPc, rLine, rRoute, rItems, rCall, rData >>

hoverVars == << hPc, hSdkId, hPropertyName, hSdkInfo, hPropertyInfo >>

completionVars == << cPc, cLine, cNow, cStatus, cItems >>

vars ==
    << searchVars, versionVars, compareVars, rankVars, resolverVars, hoverVars,
       completionVars >>

NoQuery == <<>>

InitSearch ==
    /\ packageCache = EmptyMap
    /\ cacheExpiry = EmptyMap
    /\ clock = 0
    /\ ticks = 0
    /\ pc = [c \in Calls |-> "idle"]
    /\ query = [c \in Calls |-> NoQuery]
    /\ now = [c \in Calls |-> 0]
    /\ status = [c \in Calls |-> "pending"]
    /\ value = [c \in Calls |-> <<>>]
    /\ outcome = [c \in Calls |-> "none"]
    /\ requested = {}
    /\ storedAt = EmptyMap
    /\ doneBefore = [c \in Calls |-> {}]

InitVersions ==
    /\ vPc = "idle"
    /\ vPackageId = <<>>
    /\ vPrefix = <<>>
    /\ vUrlId = <<>>
    /\ vSettled = "none"
    /\ vVersions = <<>>
    /\ vStatus = "pending"
    /\ vItems = <<>>
    /\ vRequests = 0
    /\ vCalls = 0
    /\ vRepeat = FALSE

InitCompare ==
    /\ cmpPc = "input"
    /\ intsA = <<0>>
    /\ intsB = <<0>>
    /\ verA = FormatVersion(intsA)
    /\ verB = FormatVersion(intsB)
    /\ cmpAB = 0
    /\ cmpBA = 0
    /\ cmpAA = 0

NoItem == [label |-> "", insertText |-> "", sortText |-> <<>>]

InitRank ==
    /\ rankPc = "input"
    /\ pkgA = PackageWith("Humanizer", <<>>)
    /\ pkgB = PackageWith("Json", <<>>)
    /\ itemA = NoItem
    /\ itemB = NoItem

InitResolver ==
    /\ rPc = "idle"
    /\ rLine = <<>>
    /\ rRoute = "none"
    /\ rItems = <<>>
    /\ rCall = 0
    /\ rData = <<>>

InitHover ==
    /\ hPc = "input"
    /\ hSdkId = <<>>
    /\ hPropertyName = <<>>
    /\ hSdkInfo = <<>>
    /\ hPropertyInfo = <<>>

\* No invocation of provideCompletionItems has been made.
InitCompletions ==
    /\ cPc = [i \in Invocations |-> "idle"]
    /\ cLine = [i \in Invocations |-> <<>>]
    /\ cNow = [i \in Invocations |-> 0]
    /\ cStatus = [i \in Invocations |-> "pending"]
    /\ cItems = [i \in Invocations |-> <<>>]

Init ==
    /\ InitCompletions
    /\ InitSearch
    /\ InitVersions
    /\ InitCompare
    /\ InitRank
    /\ InitResolver
    /\ InitHover

\* The amounts by which the clock advances between two events.
TickSteps == { 1, TIMEOUT, CACHE_DURATION - 1 }

\* Time passes.  A request in flight settles no later than its timeout.
Tick(d) ==
    /\ ticks < MaxTicks
    /\ \A c \in Calls : pc[c] = "awaiting" => clock + d <= now[c] + TIMEOUT
    /\ clock' = clock + d
    /\ ticks' = ticks + 1
    /\ UNCHANGED << packageCache, cacheExpiry, pc, query, now, status, value,
                    outcome, requested, storedAt, doneBefore >>
    /\ UNCHANGED << versionVars, compareVars, rankVars, resolverVars, hoverVars,
                    completionVars >>

\* searchPackages(q) up to its first await: the cache check, then either the
\* return of the cached array or the HTTP request.  Calls are taken in order
\* of their index.
SearchBegin(c, q) ==
    /\ pc[c] = "idle"
    /\ \A d \in Calls : d < c => pc[d] # "idle"
    /\ LET cacheKey == toLowerCase(q)
           n == clock
       IN  /\ query' = [query EXCEPT ![c] = q]
           /\ now' = [now EXCEPT ![c] = n]
           /\ doneBefore' = [doneBefore EXCEPT ![c] = {d \in Calls : pc[d] = "done"}]
           /\ IF CacheValid(packageCache, cacheExpiry, cacheKey, n)
              THEN /\ pc' = [pc EXCEPT ![c] = "done"]
                   /\ status' = [status EXCEPT ![c] = "returned"]
                   /\ value' = [value EXCEPT ![c] = packageCache[cacheKey]]
                   /\ outcome' = [outcome EXCEPT ![c] = "hit"]
                   /\ UNCHANGED requested
              ELSE /\ pc' = [pc EXCEPT ![c] = "awaiting"]
                   /\ requested' = requested \cup {c}
                   /\ UNCHANGED << status, value, outcome >>
    /\ UNCHANGED << packageCache, cacheExpiry, clock, ticks, storedAt >>

\* A call of searchPackages made on its own.
SearchStart(c, q) ==
    /\ SearchBegin(c, q)
    /\ UNCHANGED << versionVars, compareVars, rankVars, resolverVars, hoverVars,
                    completionVars >>

\* The awaited request of call c settles with resp and searchPackages runs to
\* its return.
SearchSettle(c, resp) ==
    /\ pc[c] = "awaiting"
    /\ resp.kind = "timeout" => clock >= now[c] + TIMEOUT
    /\ LET r == SearchResume(packageCache, cacheExpiry, toLowerCase(query[c]),
                             now[c], resp)
       IN  /\ packageCache' = r.packageCache
           /\ cacheExpiry' = r.cacheExpiry
           /\ status' = [status EXCEPT ![c] = r.status]
           /\ value' = [value EXCEPT ![c] = r.value]
           /\ outcome' = [outcome EXCEPT ![c] = r.outcome]
           /\ storedAt' = IF r.outcome = "stored"
                          THEN MapSet(storedAt, toLowerCase(query[c]), clock)
                          ELSE storedAt
    /\ pc' = [pc EXCEPT ![c] = "done"]
    /\ UNCHANGED << clock, ticks, query, now, requested, doneBefore >>

\* The request of a call made on its own settles.
SearchRespond(c, resp) ==
    /\ SearchSettle(c, resp)
    /\ UNCHANGED << versionVars, compareVars, rankVars, resolverVars, hoverVars,
                    completionVars >>

\* The request of call c is answered with a body that has a data array.
SearchSucceeds(c, resp) == resp \in WellFormed /\ SearchRespond(c, resp)

\* The request of call c is answered with a body that has no data array.
SearchMalformed(c) == SearchRespond(c, Malformed)

\* The request of call c fails in transport.
SearchErrors(c) == SearchRespond(c, TransportError)

\* The request of call c reaches its timeout.
SearchTimesOut(c) == SearchRespond(c, TimedOut)

Next ==
    \/ \E d \in TickSteps : Tick(d)
    \/ \E c \in Calls, q \in Queries : SearchStart(c, q)
    \/ \E c \in Calls, resp \in WellFormed : SearchSucceeds(c, resp)
    \/ \E c \in Calls : SearchMalformed(c)
    \/ \E c \in Calls : SearchErrors(c)
    \/ \E c \in Calls : SearchTimesOut(c)

\* The search calls of one provider, interleaved.
Spec == Init /\ [][Next]_vars

(***************************************************************************)
(* getVersionCompletions, one call after another.                          *)
(***************************************************************************)
VersionBegin_Memo(packageId, versionPrefix) ==
    /\ vPc \in {"idle", "done"}
    /\ vCalls < MaxVersionCalls
    /\ vCalls' = vCalls + 1
    /\ vRepeat' = (vPc = "done" /\ packageId = vPackageId /\ versionPrefix = vPrefix)
    /\ vPackageId' = packageId
    /\ vPrefix' = versionPrefix
    /\ vUrlId' = toLowerCase(packageId)
    /\ IF vRepeat' /\ vSettled = "versions"
       THEN /\ vPc' = "done"
            /\ UNCHANGED << vRequests, vSettled, vVersions, vStatus, vItems >>
       ELSE /\ vPc' = "awaiting"
            /\ vRequests' = vRequests + 1
            /\ vSettled' = "none"
            /\ vVersions' = <<>>
            /\ vStatus' = "pending"
            /\ vItems' = <<>>

\* getVersionCompletions(packageId, versionPrefix) up to its await.
VersionBegin(packageId, versionPrefix) ==
    /\ vPc \in {"idle", "done"}
    /\ vRequests < MaxVersionCalls
    /\ vCalls' = vCalls + 1
    /\ vRepeat' = (vPc = "done" /\ packageId = vPackageId /\ versionPrefix = vPrefix)
    /\ vPc' = "awaiting"
    /\ vPackageId' = packageId
    /\ vPrefix' = versionPrefix
    /\ vUrlId' = toLowerCase(packageId)
    /\ vRequests' = vRequests + 1
    /\ vSettled' = "none"
    /\ vVersions' = <<>>
    /\ vStatus' = "pending"
    /\ vItems' = <<>>

\* A call of getVersionCompletions made on its own.
VersionStart(packageId, versionPrefix) ==
    /\ VersionBegin(packageId, versionPrefix)
    /\ UNCHANGED << searchVars, compareVars, rankVars, resolverVars, hoverVars,
                    completionVars >>

\* The awaited request settles with resp and the call runs to its return.
VersionSettle(resp) ==
    /\ vPc = "awaiting"
    /\ LET r == VersionResume(vPrefix, resp)
       IN  /\ vStatus' = r.status
           /\ vItems' = r.items
    /\ vPc' = "done"
    /\ vSettled' = IF resp.kind # "response" THEN resp.kind
                   ELSE IF resp.hasVersions THEN "versions" ELSE "no versions"
    /\ vVersions' = resp.versions
    /\ UNCHANGED << vPackageId, vPrefix, vUrlId, vRequests, vCalls, vRepeat >>

\* The request of a call made on its own settles.
VersionRespond(resp) ==
    /\ VersionSettle(resp)
    /\ UNCHANGED << searchVars, compareVars, rankVars, resolverVars, hoverVars,
                    completionVars >>

\* The version index is returned.
VersionsArrive(resp) == resp \in VersionsWellFormed /\ VersionRespond(resp)

\* The response has no versions array.
VersionsAbsent == VersionRespond(VersionsMissing)

\* The request fails in transport.
VersionsFail == VersionRespond(VersionsError)

\* The request reaches its timeout.
VersionsTimeOut == VersionRespond(VersionsTimedOut)

\* The response has no usable body.
VersionsUnusable == VersionRespond(VersionsGarbled)

NextVersions ==
    \/ \E id \in PackageIds, p \in Prefixes : VersionStart(id, p)
    \/ \E resp \in VersionsWellFormed : VersionsArrive(resp)
    \/ VersionsAbsent
    \/ VersionsFail
    \/ VersionsTimeOut
    \/ VersionsUnusable

SpecVersions == Init /\ [][NextVersions]_vars

(***************************************************************************)
(* compareVersions applied to a pair of version strings.                   *)
(***************************************************************************)
\* The values of the segments of the operands.
SegmentValues == {0, 1, 2, 10}

IntLists == UNION { [1..k -> SegmentValues] : k \in 1..MaxSegments }

\* The operands: every pair of lists, and "1.2.3" with "1.10.0".
OperandPairs ==
    (IntLists \X IntLists) \cup { << <<1, 2, 3>>, <<1, 10, 0>> >> }

InitOperands ==
    /\ InitCompletions
    /\ InitSearch
    /\ InitVersions
    /\ InitRank
    /\ InitResolver
    /\ InitHover
    /\ cmpPc = "input"
    /\ \E pair \in OperandPairs : intsA = pair[1] /\ intsB = pair[2]
    /\ verA = FormatVersion(intsA)
    /\ verB = FormatVersion(intsB)
    /\ cmpAB = 0
    /\ cmpBA = 0
    /\ cmpAA = 0

\* The three calls of compareVersions on the operands.
Compare ==
    /\ cmpPc = "input"
    /\ cmpAB' = compareVersions(verA, verB)
    /\ cmpBA' = compareVersions(verB, verA)
    /\ cmpAA' = compareVersions(verA, verA)
    /\ cmpPc' = "done"
    /\ UNCHANGED << intsA, intsB, verA, verB >>
    /\ UNCHANGED << searchVars, versionVars, rankVars, resolverVars, hoverVars,
                    completionVars >>

NextCompare == Compare

SpecCompare == InitOperands /\ [][NextCompare]_vars

(***************************************************************************)
(* createPackageCompletionItem applied to a pair of package records.       *)
(***************************************************************************)
InitPackages ==
    /\ InitCompletions
    /\ InitSearch
    /\ InitVersions
    /\ InitCompare
    /\ InitResolver
    /\ InitHover
    /\ rankPc = "input"
    /\ \E a \in DownloadCounts, b \in DownloadCounts :
           /\ pkgA = PackageWith("Humanizer", a)
           /\ pkgB = PackageWith("Json", b)
    /\ itemA = NoItem
    /\ itemB = NoItem

\* The items of the two packages are built.
BuildItems ==
    /\ rankPc = "input"
    /\ itemA' = createPackageCompletionItem(pkgA)
    /\ itemB' = createPackageCompletionItem(pkgB)
    /\ rankPc' = "done"
    /\ UNCHANGED << pkgA, pkgB >>
    /\ UNCHANGED << searchVars, versionVars, compareVars, resolverVars, hoverVars,
                    completionVars >>

NextRank == BuildItems

SpecRank == InitPackages /\ [][NextRank]_vars

(***************************************************************************)
(* provideCompletionItems, one completion request after another.           *)
(***************************************************************************)
\* The text from the start of the line to the cursor.
LineTexts ==
    { "#:package ", "#:package @1", "#:package Js", "#:package js",
      "#:package a-b@1", "#:package Js@", "#:package x@1",
      "#:sdk ", "#:sdk web",
      "#:property ", "#:property Lang", "#:property LangVersion",
      "#:property LangVersion p", "#:property nullable",
      "#:property LangVersion 7", "#:property TargetFramework NETS",
      "#:property OutputType e", "#:property Nullable ",
      "#:property nullable e", "#:property Foo x",
      "#:", "#:p", "#:package", "// todo" }

LinePrefixes == { Chars(text) : text \in LineTexts }

\* The helper each line prefix is handed to.
RouteOf == [linePrefix \in LinePrefixes |-> Route(linePrefix)]

\* The items of the helpers that do not await.
StaticItems(route) ==
    CASE route.helper = "getSdkCompletions" -> getSdkCompletions(route.arg1)
      [] route.helper = "getPropertyValueCompletions" ->
             getPropertyValueCompletions(route.arg1, route.arg2)
      [] route.helper = "getPropertyNameCompletions" ->
             getPropertyNameCompletions(route.arg1)
      [] route.helper = "getDirectiveCompletions" ->
             getDirectiveCompletions(route.arg1)
      [] OTHER -> <<>>

StaticItemsOf == [linePrefix \in LinePrefixes |-> StaticItems(RouteOf[linePrefix])]

\* The search results the completion requests receive: none, the two items,
\* and the two items with other totalDownloads.
Item2Popular == [Item2 EXCEPT !.totalDownloads = <<900>>]

CompletionData == { <<>>, <<Item2, Item1>>, <<Item2Popular, Item1>> }

CompletionWellFormed == [kind : {"response"}, data : CompletionData]

\* The version indexes the completion requests receive.
CompletionVersions ==
    { [kind |-> "response", hasVersions |-> TRUE, versions |-> ExampleList] }

\* provideCompletionItems on a line prefix that is handed to
\* getPackageCompletions, up to the await of searchPackages.
CompletePackage(linePrefix) ==
    /\ rPc \in {"idle", "done"}
    /\ RouteOf[linePrefix].helper = "getPackageCompletions"
    /\ rLine' = linePrefix
    /\ rRoute' = RouteOf[linePrefix].helper
    /\ rData' = <<>>
    /\ LET q == RouteOf[linePrefix].arg1
       IN  IF getPackageCompletions_Guard(q)
           THEN /\ rItems' = <<>>
                /\ rPc' = "done"
                /\ rCall' = 0
                /\ UNCHANGED searchVars
           ELSE \E c \in Calls :
                    /\ SearchBegin(c, q)
                    /\ rCall' = c
                    /\ IF pc'[c] = "done"
                       THEN rItems' = PackageItems(value'[c]) /\ rPc' = "done"
                       ELSE rItems' = <<>> /\ rPc' = "awaitSearch"
    /\ UNCHANGED << versionVars, compareVars, rankVars, hoverVars,
                    completionVars >>

\* The awaited searchPackages settles and getPackageCompletions returns: the
\* mapped packages, or [] from its catch block.
PackageSearchSettles(resp) ==
    /\ rPc = "awaitSearch"
    /\ SearchSettle(rCall, resp)
    /\ rItems' = IF status'[rCall] = "rejected" THEN <<>>
                 ELSE PackageItems(value'[rCall])
    /\ rData' = IF Throws(resp) THEN <<>> ELSE resp.data
    /\ rPc' = "done"
    /\ UNCHANGED << rLine, rRoute, rCall >>
    /\ UNCHANGED << versionVars, compareVars, rankVars, hoverVars,
                    completionVars >>

PackageSearchSucceeds(resp) ==
    resp \in CompletionWellFormed /\ PackageSearchSettles(resp)

PackageSearchFails(resp) ==
    resp \in {Malformed, TransportError} /\ PackageSearchSettles(resp)

\* provideCompletionItems on a line prefix that is handed to
\* getVersionCompletions, up to the await of the version index.
CompleteVersion(linePrefix) ==
    /\ rPc \in {"idle", "done"}
    /\ RouteOf[linePrefix].helper = "getVersionCompletions"
    /\ VersionBegin(RouteOf[linePrefix].arg1, RouteOf[linePrefix].arg2)
    /\ rLine' = linePrefix
    /\ rRoute' = RouteOf[linePrefix].helper
    /\ rData' = <<>>
    /\ rCall' = 0
    /\ rItems' = vItems'
    /\ rPc' = IF vPc' = "awaiting" THEN "awaitVersions" ELSE "done"
    /\ UNCHANGED << searchVars, compareVars, rankVars, hoverVars,
                    completionVars >>

\* The awaited version index settles and getVersionCompletions returns.
VersionFetchSettles(resp) ==
    /\ rPc = "awaitVersions"
    /\ VersionSettle(resp)
    /\ rItems' = vItems'
    /\ rPc' = "done"
    /\ UNCHANGED << rLine, rRoute, rCall, rData >>
    /\ UNCHANGED << searchVars, compareVars, rankVars, hoverVars,
                    completionVars >>

VersionFetchSucceeds(resp) ==
    resp \in CompletionVersions /\ VersionFetchSettles(resp)

VersionFetchFails == VersionFetchSettles(VersionsError)

\* provideCompletionItems on a line prefix that is handed to the given helper
\* of the reference tables, or to none.
CompleteStatic(linePrefix, helper) ==
    /\ rPc \in {"idle", "done"}
    /\ RouteOf[linePrefix].helper = helper
    /\ rLine' = linePrefix
    /\ rRoute' = helper
    /\ rItems' = StaticItemsOf[linePrefix]
    /\ rPc' = "done"
    /\ rCall' = 0
    /\ rData' = <<>>
    /\ UNCHANGED << searchVars, versionVars, compareVars, rankVars, hoverVars,
                    completionVars >>

CompleteSdk(linePrefix) == CompleteStatic(linePrefix, "getSdkCompletions")

CompletePropertyValue(linePrefix) ==
    CompleteStatic(linePrefix, "getPropertyValueCompletions")

CompletePropertyName(linePrefix) ==
    CompleteStatic(linePrefix, "getPropertyNameCompletions")

CompleteDirective(linePrefix) ==
    CompleteStatic(linePrefix, "getDirectiveCompletions")

CompleteNothing(linePrefix) == CompleteStatic(linePrefix, "none")

NextResolver ==
    \/ \E linePrefix \in LinePrefixes : CompletePackage(linePrefix)
    \/ \E resp \in CompletionWellFormed : PackageSearchSucceeds(resp)
    \/ \E resp \in {Malformed, TransportError} : PackageSearchFails(resp)
    \/ \E linePrefix \in LinePrefixes : CompleteVersion(linePrefix)
    \/ \E resp \in CompletionVersions : VersionFetchSucceeds(resp)
    \/ VersionFetchFails
    \/ \E linePrefix \in LinePrefixes : CompleteSdk(linePrefix)
    \/ \E linePrefix \in LinePrefixes : CompletePropertyValue(linePrefix)
    \/ \E linePrefix \in LinePrefixes : CompletePropertyName(linePrefix)
    \/ \E linePrefix \in LinePrefixes : CompleteDirective(linePrefix)
    \/ \E linePrefix \in LinePrefixes : CompleteNothing(linePrefix)

SpecResolver == Init /\ [][NextResolver]_vars

(***************************************************************************)
(* provideCompletionItems, invocations in flight together.  The clock does *)
(* not advance here, so no entry expires and a timeout is one more way for *)
(* a request to fail.                                                      *)
(***************************************************************************)
\* What the search request of an invocation can settle with.
SearchOutcomes == CompletionWellFormed \cup { Malformed, TransportError, TimedOut }

\* What the version-index request of an invocation can settle with.
VersionOutcomes ==
    CompletionVersions
        \cup { VersionsMissing, VersionsError, VersionsTimedOut, VersionsGarbled }

\* What getVersionCompletions returns for each line prefix handed to it and
\* each outcome of its request.
VersionLines ==
    { linePrefix \in LinePrefixes :
        RouteOf[linePrefix].helper = "getVersionCompletions" }

VersionResultOf ==
    [linePrefix \in VersionLines, resp \in VersionOutcomes |->
        VersionResume(RouteOf[linePrefix].arg2, resp)]

\* Invocation i starts: invocations are numbered in the order they start.
InvocationStarts(i, linePrefix, helper) ==
    /\ cPc[i] = "idle"
    /\ \A j \in Invocations : j < i => cPc[j] # "idle"
    /\ RouteOf[linePrefix].helper = helper
    /\ cLine' = [cLine EXCEPT ![i] = linePrefix]

\* provideCompletionItems on a line prefix that is handed to
\* getPackageCompletions, up to the await of the search request: [] for an
\* empty query, the items of the cached packages on a cache hit, and
\* otherwise the request is issued.
InvokePackage(i, linePrefix) ==
    /\ InvocationStarts(i, linePrefix, "getPackageCompletions")
    /\ LET q == RouteOf[linePrefix].arg1
           cacheKey == toLowerCase(q)
       IN  IF getPackageCompletions_Guard(q)
           THEN /\ cPc' = [cPc EXCEPT ![i] = "done"]
                /\ cStatus' = [cStatus EXCEPT ![i] = "resolved"]
                /\ cItems' = [cItems EXCEPT ![i] = <<>>]
                /\ UNCHANGED cNow
           ELSE /\ cNow' = [cNow EXCEPT ![i] = clock]
                /\ IF CacheValid(packageCache, cacheExpiry, cacheKey, clock)
                   THEN /\ cPc' = [cPc EXCEPT ![i] = "done"]
                        /\ cStatus' = [cStatus EXCEPT ![i] = "resolved"]
                        /\ cItems' = [cItems EXCEPT ![i] =
                                         PackageItems(packageCache[cacheKey])]
                   ELSE /\ cPc' = [cPc EXCEPT ![i] = "awaitSearch"]
                        /\ UNCHANGED << cStatus, cItems >>
    /\ UNCHANGED << searchVars, versionVars, compareVars, rankVars, resolverVars,
                    hoverVars >>

\* provideCompletionItems on a line prefix that is handed to
\* getVersionCompletions, up to the await of the version index.
InvokeVersion(i, linePrefix) ==
    /\ InvocationStarts(i, linePrefix, "getVersionCompletions")
    /\ cPc' = [cPc EXCEPT ![i] = "awaitVersions"]
    /\ UNCHANGED << cNow, cStatus, cItems >>
    /\ UNCHANGED << searchVars, versionVars, compareVars, rankVars, resolverVars,
                    hoverVars >>

\* provideCompletionItems on any other line prefix: the helper of a
\* reference table, or return [].
InvokeStatic(i, linePrefix) ==
    /\ \E helper \in { "getSdkCompletions", "getPropertyValueCompletions",
                       "getPropertyNameCompletions", "getDirectiveCompletions",
                       "none" } :
           InvocationStarts(i, linePrefix, helper)
    /\ cPc' = [cPc EXCEPT ![i] = "done"]
    /\ cStatus' = [cStatus EXCEPT ![i] = "resolved"]
    /\ cItems' = [cItems EXCEPT ![i] = StaticItemsOf[linePrefix]]
    /\ UNCHANGED cNow
    /\ UNCHANGED << searchVars, versionVars, compareVars, rankVars, resolverVars,
                    hoverVars >>

SearchAnswered_Queued(i, resp) ==
    /\ cPc[i] = "awaitSearch"
    /\ \A j \in Invocations : j < i => cPc[j] \in {"idle", "done"}
    /\ LET cacheKey == toLowerCase(RouteOf[cLine[i]].arg1)
           r == SearchResume(packageCache, cacheExpiry, cacheKey, cNow[i], resp)
       IN  /\ packageCache' = r.packageCache
           /\ cacheExpiry' = r.cacheExpiry
           /\ storedAt' = IF r.outcome = "stored"
                          THEN MapSet(storedAt, cacheKey, clock)
                          ELSE storedAt
           /\ cItems' = [cItems EXCEPT ![i] =
                            IF r.status = "rejected" THEN <<>>
                            ELSE PackageItems(r.value)]
    /\ cPc' = [cPc EXCEPT ![i] = "done"]
    /\ cStatus' = [cStatus EXCEPT ![i] = "resolved"]
    /\ UNCHANGED << cLine, cNow >>
    /\ UNCHANGED << clock, ticks, pc, query, now, status, value, outcome,
                    requested, doneBefore >>
    /\ UNCHANGED << versionVars, compareVars, rankVars, resolverVars, hoverVars >>

\* The search request of invocation i settles; searchPackages runs to its
\* return and getPackageCompletions maps the packages, or returns [] from
\* its catch block.
SearchAnswered(i, resp) ==
    /\ cPc[i] = "awaitSearch"
    /\ LET cacheKey == toLowerCase(RouteOf[cLine[i]].arg1)
           r == SearchResume(packageCache, cacheExpiry, cacheKey, cNow[i], resp)
       IN  /\ packageCache' = r.packageCache
           /\ cacheExpiry' = r.cacheExpiry
           /\ storedAt' = IF r.outcome = "stored"
                          THEN MapSet(storedAt, cacheKey, clock)
                          ELSE storedAt
           /\ cItems' = [cItems EXCEPT ![i] =
                            IF r.status = "rejected" THEN <<>>
                            ELSE PackageItems(r.value)]
    /\ cPc' = [cPc EXCEPT ![i] = "done"]
    /\ cStatus' = [cStatus EXCEPT ![i] = "resolved"]
    /\ UNCHANGED << cLine, cNow >>
    /\ UNCHANGED << clock, ticks, pc, query, now, status, value, outcome,
                    requested, doneBefore >>
    /\ UNCHANGED << versionVars, compareVars, rankVars, resolverVars, hoverVars >>

\* The version-index request of invocation i settles and the promise of
\* getVersionCompletions, which provideCompletionItems returned, settles
\* with it.
VersionsAnswered(i, resp) ==
    /\ cPc[i] = "awaitVersions"
    /\ LET r == VersionResultOf[cLine[i], resp]
       IN  /\ cItems' = [cItems EXCEPT ![i] = r.items]
           /\ cStatus' = [cStatus EXCEPT ![i] =
                             IF r.status = "rejected" THEN "rejected"
                             ELSE "resolved"]
    /\ cPc' = [cPc EXCEPT ![i] = "done"]
    /\ UNCHANGED << cLine, cNow >>
    /\ UNCHANGED << searchVars, versionVars, compareVars, rankVars, resolverVars,
                    hoverVars >>

NextCompletions ==
    \/ \E i \in Invocations, linePrefix \in LinePrefixes : InvokePackage(i, linePrefix)
    \/ \E i \in Invocations, linePrefix \in LinePrefixes : InvokeVersion(i, linePrefix)
    \/ \E i \in Invocations, linePrefix \in LinePrefixes : InvokeStatic(i, linePrefix)
    \/ \E i \in Invocations, resp \in SearchOutcomes : SearchAnswered(i, resp)
    \/ \E i \in Invocations, resp \in VersionOutcomes : VersionsAnswered(i, resp)

\* Every request settles: axios is given a timeout of TIMEOUT ms, so a
\* request that gets no answer fails.
RequestsSettle ==
    \A i \in Invocations :
        /\ WF_vars(\E resp \in SearchOutcomes : SearchAnswered(i, resp))
        /\ WF_vars(\E resp \in VersionOutcomes : VersionsAnswered(i, resp))

\* The invocations of one provider, interleaved, every request settling.
SpecCompletions == Init /\ [][NextCompletions]_vars /\ RequestsSettle

(***************************************************************************)
(* The lookups of the hover provider applied to an SDK id and a property   *)
(* name.                                                                   *)
(***************************************************************************)
\* The ids hovered over: the ids of the completion table, and ids that
\* differ from them in case, by a suffix or by a missing part.
SdkIds ==
    { Chars(COMMON_SDKS[i].id) : i \in DOMAIN COMMON_SDKS }
        \cup { Chars("microsoft.net.sdk"), Chars("Microsoft.NET.Sdk.Foo"),
               Chars("Microsoft.NET"), <<>> }

PropertyNames ==
    { Chars(COMMON_PROPERTIES[i].name) : i \in DOMAIN COMMON_PROPERTIES }
        \cup { Chars("langversion"), Chars("Lang"), Chars("Version") }

InitLookups ==
    /\ InitCompletions
    /\ InitSearch
    /\ InitVersions
    /\ InitCompare
    /\ InitRank
    /\ InitResolver
    /\ hPc = "input"
    /\ hSdkId \in SdkIds
    /\ hPropertyName \in PropertyNames
    /\ hSdkInfo = <<>>
    /\ hPropertyInfo = <<>>

\* getSdkHover and getPropertyHover look the names up.
FindInfo ==
    /\ hPc = "input"
    /\ hSdkInfo' = findSdkInfo(hSdkId)
    /\ hPropertyInfo' = findPropertyInfo(hPropertyName)
    /\ hPc' = "done"
    /\ UNCHANGED << hSdkId, hPropertyName >>
    /\ UNCHANGED << searchVars, versionVars, compareVars, rankVars, resolverVars,
                    completionVars >>

NextHover == FindInfo

SpecHover == InitLookups /\ [][NextHover]_vars

(***************************************************************************)
(* Vocabulary of the claims about searchPackages.                          *)
(***************************************************************************)
\* The cache key of call c.
KeyOf(c) == toLowerCase(query[c])

\* This step is the start of call c.
Started(c) == pc[c] = "idle" /\ pc'[c] # "idle"

\* This step is the settling of call c's request.
Settled(c) == pc[c] = "awaiting" /\ pc'[c] = "done"

\* Key k has an entry and the clock is strictly before its expiresAt.
EntryLive(k) ==
    /\ k \in DOMAIN packageCache
    /\ k \in DOMAIN cacheExpiry
    /\ clock < cacheExpiry[k]

\* Key k has an entry, valid or not.
EntryPresent(k) == k \in DOMAIN packageCache /\ k \in DOMAIN cacheExpiry

\* The number of HTTP requests issued for key k.
RequestsFor(k) == Cardinality({d \in requested : KeyOf(d) = k})

\* No call other than c1 and c2 was made for key k.
OnlyCallsFor(k, c1, c2) ==
    \A d \in Calls \ {c1, c2} : pc[d] = "idle" \/ KeyOf(d) # k

\* Two letters that are equal or differ only in case.
SameLetter(a, b) ==
    \/ a = b
    \/ a \in DOMAIN UpperToLower /\ UpperToLower[a] = b
    \/ b \in DOMAIN UpperToLower /\ UpperToLower[b] = a

\* Two strings that differ at most in letter case.
EqIgnoreCase(s, t) ==
    Len(s) = Len(t) /\ \A i \in 1..Len(s) : SameLetter(s[i], t[i])

\* A string without upper-case letters.
IsLowerCase(s) == \A i \in 1..Len(s) : s[i] \notin DOMAIN UpperToLower

\* The packages of the two-item response, as searchPackages returns them.
TwoPackages ==
    << [id |-> "Json", version |-> "13.0.3", description |-> <<>>,
        totalDownloads |-> <<>>],
       [id |-> "Humanizer", version |-> "2.14.1", description |-> <<"text">>,
        totalDownloads |-> <<500>>] >>

(***************************************************************************)
(* C1  Cache hit.  A call started while its key has an entry and the clock *)
(* is strictly before that entry's expiresAt returns exactly the stored    *)
(* sequence and issues no request; and when the only two calls for a key   *)
(* are sequential, the first stored its result and the second starts       *)
(* before the entry's expiresAt, the second returns what the first         *)
(* returned and one request was issued for the key in total.               *)
(***************************************************************************)
C1_HitStep ==
    \A c \in Calls :
        (Started(c) /\ EntryLive(toLowerCase(query'[c]))) =>
            /\ pc'[c] = "done"
            /\ status'[c] = "returned"
            /\ value'[c] = packageCache[toLowerCase(query'[c])]
            /\ requested' = requested

C1_Sequential ==
    \A c1 \in Calls, c2 \in Calls :
        ( /\ c1 \in doneBefore[c2]
          /\ outcome[c1] = "stored"
          /\ KeyOf(c1) = KeyOf(c2)
          /\ OnlyCallsFor(KeyOf(c1), c1, c2)
          /\ pc[c2] = "awaiting" \/ outcome[c2] = "hit"
          /\ now[c2] < cacheExpiry[KeyOf(c1)] ) =>
            /\ outcome[c2] = "hit"
            /\ value[c2] = value[c1]
            /\ RequestsFor(KeyOf(c1)) = 1

C1_CacheHit == [][C1_HitStep]_vars /\ []C1_Sequential

\* A second call one millisecond before expiresAt was served the two stored
\* packages, and only the first call issued a request.
C1_Witness ==
    \E c1 \in Calls, c2 \in Calls :
        /\ c1 \in doneBefore[c2]
        /\ outcome[c1] = "stored"
        /\ outcome[c2] = "hit"
        /\ query[c1] = query[c2]
        /\ now[c2] = now[c1] + CACHE_DURATION - 1
        /\ value[c2] = TwoPackages
        /\ requested = {c1}

(***************************************************************************)
(* C2  Case-normalized keys.  Every key of either map is lowercase, and a  *)
(* call whose query differs at most in letter case from a key with a live  *)
(* entry is served from that entry without a request.                      *)
(***************************************************************************)
C2_LowerKeys ==
    \A k \in (DOMAIN packageCache) \cup (DOMAIN cacheExpiry) : IsLowerCase(k)

C2_HitStep ==
    \A c \in Calls :
        \A k \in (DOMAIN packageCache) \cap (DOMAIN cacheExpiry) :
            (Started(c) /\ EqIgnoreCase(k, query'[c]) /\ clock < cacheExpiry[k]) =>
                /\ outcome'[c] = "hit"
                /\ value'[c] = packageCache[k]
                /\ requested' = requested

C2_CaseNormalized == []C2_LowerKeys /\ [][C2_HitStep]_vars

\* A query was answered from the entry stored by a call whose query differs
\* from it in case.
C2_Witness ==
    \E c1 \in Calls, c2 \in Calls :
        /\ c1 \in doneBefore[c2]
        /\ outcome[c1] = "stored"
        /\ outcome[c2] = "hit"
        /\ query[c1] # query[c2]
        /\ EqIgnoreCase(query[c1], query[c2])
        /\ value[c2] = TwoPackages
        /\ requested = {c1}

(***************************************************************************)
(* C3  Expiry boundary.  A call for a key that has an entry is served from *)
(* it exactly when the clock is strictly before expiresAt; at or after     *)
(* expiresAt the call issues a request, and when that request succeeds it  *)
(* replaces the packages and the expiresAt of the key.                     *)
(***************************************************************************)
C3_StartStep ==
    \A c \in Calls :
        LET k == toLowerCase(query'[c])
        IN  (Started(c) /\ EntryPresent(k)) =>
                /\ (outcome'[c] = "hit") <=> (clock < cacheExpiry[k])
                /\ (clock >= cacheExpiry[k]) =>
                       /\ pc'[c] = "awaiting"
                       /\ c \notin requested
                       /\ c \in requested'

C3_StoreStep ==
    \A c \in Calls :
        (Settled(c) /\ outcome'[c] = "stored") =>
            /\ packageCache'[KeyOf(c)] = value'[c]
            /\ cacheExpiry'[KeyOf(c)] = now[c] + CACHE_DURATION
            /\ EntryPresent(KeyOf(c)) /\ now[c] >= cacheExpiry[KeyOf(c)] =>
                   cacheExpiry'[KeyOf(c)] > cacheExpiry[KeyOf(c)]

C3_ExpiryBoundary == [][C3_StartStep /\ C3_StoreStep]_vars

\* A call made exactly at the expiresAt of the first call's entry fetched
\* again and replaced the empty sequence and the expiresAt of the key.
C3_Witness ==
    \E c1 \in Calls, c2 \in Calls :
        /\ c1 \in doneBefore[c2]
        /\ outcome[c1] = "stored"
        /\ value[c1] = <<>>
        /\ KeyOf(c1) = KeyOf(c2)
        /\ now[c2] = now[c1] + CACHE_DURATION
        /\ outcome[c2] = "stored"
        /\ requested = {c1, c2}
        /\ packageCache[KeyOf(c2)] = TwoPackages
        /\ cacheExpiry[KeyOf(c2)] = now[c2] + CACHE_DURATION


(***************************************************************************)
(* C4  searchPackages never raises.  However the request settles, the      *)
(* promise of the call resolves, never rejects, and a call whose request   *)
(* failed resolves with the empty sequence.                                *)
(***************************************************************************)
C4_Resolved ==
    \A c \in Calls :
        /\ status[c] # "rejected"
        /\ pc[c] = "done" => status[c] = "returned"
        /\ outcome[c] = "failed" => value[c] = <<>>

C4_SettleStep ==
    \A c \in Calls : Settled(c) => status'[c] = "returned"

C4_NeverRaises == []C4_Resolved /\ [][C4_SettleStep]_vars

\* A call whose request failed has resolved with the empty sequence.
C4_Witness ==
    \E c \in Calls :
        /\ c \in requested
        /\ outcome[c] = "failed"
        /\ status[c] = "returned"
        /\ value[c] = <<>>

(***************************************************************************)
(* C5  Failure does not populate the cache.  The step in which a request   *)
(* fails leaves both maps as they were, so every entry was written by a    *)
(* call whose request succeeded; and a call started while its key has no   *)
(* valid entry issues a request.                                           *)
(***************************************************************************)
C5_FailStep ==
    \A c \in Calls :
        (Settled(c) /\ outcome'[c] = "failed") =>
            /\ packageCache' = packageCache
            /\ cacheExpiry' = cacheExpiry

C5_RetryStep ==
    \A c \in Calls :
        (Started(c) /\ ~EntryLive(toLowerCase(query'[c]))) =>
            /\ pc'[c] = "awaiting"
            /\ c \notin requested
            /\ requested' = requested \cup {c}

C5_EntriesFromSuccess ==
    \A k \in (DOMAIN packageCache) \cup (DOMAIN cacheExpiry) :
        \E c \in Calls : outcome[c] = "stored" /\ KeyOf(c) = k

C5_FailureLeavesCache ==
    [][C5_FailStep /\ C5_RetryStep]_vars /\ []C5_EntriesFromSuccess

\* After a failed call the key has no entry and the next call for the same
\* query has issued a second request.
C5_Witness ==
    \E c1 \in Calls, c2 \in Calls :
        /\ c1 \in doneBefore[c2]
        /\ outcome[c1] = "failed"
        /\ query[c1] = query[c2]
        /\ KeyOf(c1) \notin DOMAIN packageCache
        /\ KeyOf(c1) \notin DOMAIN cacheExpiry
        /\ pc[c2] = "awaiting"
        /\ requested = {c1, c2}

(***************************************************************************)
(* C6  As claimed: the expiresAt of an entry is the time at which the      *)
(* entry was written plus 300000 ms.                                       *)
(***************************************************************************)
C6_ExpiryFromStoreTime ==
    \A k \in DOMAIN cacheExpiry : cacheExpiry[k] = storedAt[k] + CACHE_DURATION

(***************************************************************************)
(* C6  As amended: the expiresAt written by a successful call is the time  *)
(* at which the call started (its reading of the clock before the request  *)
(* was issued) plus 300000 ms, which is never later than the time of the   *)
(* write plus 300000 ms.                                                   *)
(***************************************************************************)
C6_StartStep ==
    \A c \in Calls : Started(c) => now'[c] = clock

C6_StoreStep ==
    \A c \in Calls :
        (Settled(c) /\ outcome'[c] = "stored") =>
            /\ now'[c] = now[c]
            /\ cacheExpiry'[KeyOf(c)] = now[c] + 300000
            /\ cacheExpiry'[KeyOf(c)] <= clock + 300000

C6_ExpiryFromCallStart == [][C6_StartStep /\ C6_StoreStep]_vars

\* An entry written one millisecond after its call started expires 300000 ms
\* after the start of the call.
C6_Witness ==
    \E c \in Calls :
        /\ outcome[c] = "stored"
        /\ storedAt[KeyOf(c)] = now[c] + 1
        /\ cacheExpiry[KeyOf(c)] = now[c] + 300000

(***************************************************************************)
(* Vocabulary of the claims about versions.                                *)
(***************************************************************************)
\* The segment of a list of integers at position i, 0 when it is missing.
SegmentOrZero(ints, i) == IF i <= Len(ints) THEN ints[i] ELSE 0

\* The positions at which two lists of integers differ.
DifferingPositions(a, b) ==
    { i \in 1..Max(Len(a), Len(b)) : SegmentOrZero(a, i) # SegmentOrZero(b, i) }

\* The least element of a non-empty set of integers.
Least(S) == CHOOSE i \in S : \A j \in S : i <= j

Sign(n) == IF n > 0 THEN 1 ELSE IF n < 0 THEN -1 ELSE 0

\* The version has a hyphen.
HasHyphen(v) == \E i \in 1..Len(v) : v[i] = "-"

\* p is a literal prefix of v.
IsLiteralPrefix(p, v) ==
    Len(p) <= Len(v) /\ \A i \in 1..Len(p) : v[i] = p[i]

\* The number of occurrences of v in a sequence.
Occurrences(seq, v) == Cardinality({ i \in 1..Len(seq) : seq[i] = v })

\* The labels of the items resolved by getVersionCompletions.
Labels == [i \in 1..Len(vItems) |-> vItems[i].label]

\* The positions of the received version list that pass the filter.
Qualifying ==
    { k \in 1..Len(vVersions) :
        ~HasHyphen(vVersions[k]) /\ IsLiteralPrefix(vPrefix, vVersions[k]) }

\* The order of the characters of version strings by code unit.
CharOrder ==
    << " ", "-", ".", "0", "1", "2", "3", "4", "5", "6", "7", "8", "9",
       "a", "b", "e", "t" >>

CharCode(ch) == CHOOSE i \in 1..Len(CharOrder) : CharOrder[i] = ch

\* s sorts strictly before t in the order of strings.
LexLess(s, t) ==
    \E i \in 1..(Len(t)) :
        /\ \A j \in 1..(i - 1) : j <= Len(s) /\ s[j] = t[j]
        /\ \/ i = Len(s) + 1
           \/ i <= Len(s) /\ CharCode(s[i]) < CharCode(t[i])

(***************************************************************************)
(* C7  compareVersions is antisymmetric and reflexive on strings of        *)
(* dot-separated non-negative integers: compareVersions(a, b) is           *)
(* -compareVersions(b, a) and compareVersions(a, a) is 0.                  *)
(***************************************************************************)
C7_Antisymmetric ==
    cmpPc = "done" => (cmpAB = -cmpBA /\ cmpAA = 0)

\* Operands with different numbers of segments that compare unequal.
C7_Witness ==
    /\ cmpPc = "done"
    /\ Len(intsA) < Len(intsB)
    /\ cmpAB < 0
    /\ cmpBA > 0

(***************************************************************************)
(* C8  compareVersions orders by integer segments from the most            *)
(* significant: its sign is the sign of a_i - b_i at the first position    *)
(* where the segments differ, a missing segment counting as 0; it is 0     *)
(* when no position differs; "2.1" equals "2.1.0", "1.2.3" is less than    *)
(* "1.10.0"; and every pair of operands has a result.                      *)
(***************************************************************************)
C8_SegmentOrder ==
    /\ cmpPc = "input" => compareVersions(verA, verB) \in Int
    /\ cmpPc = "done" =>
        /\ cmpAB \in Int
        /\ LET diff == DifferingPositions(intsA, intsB)
           IN  IF diff = {} THEN cmpAB = 0
               ELSE Sign(cmpAB) = Sign(SegmentOrZero(intsA, Least(diff))
                                         - SegmentOrZero(intsB, Least(diff)))
        /\ (intsA = <<2, 1>> /\ intsB = <<2, 1, 0>>) => cmpAB = 0
        /\ (intsA = <<1, 2, 3>> /\ intsB = <<1, 10, 0>>) => cmpAB < 0

\* "1.2.3" was compared with "1.10.0" and found less.
C8_Witness ==
    /\ cmpPc = "done"
    /\ verA = <<"1", ".", "2", ".", "3">>
    /\ verB = <<"1", ".", "1", "0", ".", "0">>
    /\ cmpAB < 0

(***************************************************************************)
(* C9  Version filtering.  For the received version list and the typed     *)
(* prefix, the items are built from versions of the list that have no      *)
(* hyphen and have the prefix as a literal prefix, each at most as often   *)
(* as it occurs in the list; there are as many items as such versions, up  *)
(* to 10; they are in descending order of compareVersions; no omitted      *)
(* version is greater than an item; and ["1.0.0", "1.0.0-beta", "1.1.0",   *)
(* "2.0.0"] with prefix "1" yields ["1.1.0", "1.0.0"].                     *)
(***************************************************************************)
C9_VersionFiltering ==
    (vPc = "done" /\ vSettled = "versions") =>
        /\ vStatus = "returned"
        /\ Len(vItems) = Min(10, Cardinality(Qualifying))
        /\ \A i \in 1..Len(vItems) :
            /\ vItems[i].insertText = vItems[i].label
            /\ \E k \in Qualifying : vVersions[k] = Labels[i]
            /\ Occurrences(Labels, Labels[i]) <= Occurrences(vVersions, Labels[i])
        /\ \A i \in 1..Len(vItems), j \in 1..Len(vItems) :
            i < j => compareVersions(Labels[i], Labels[j]) >= 0
        /\ \A k \in Qualifying :
            Occurrences(Labels, vVersions[k]) < Occurrences(vVersions, vVersions[k]) =>
                \A i \in 1..Len(vItems) :
                    compareVersions(Labels[i], vVersions[k]) >= 0
        /\ (vVersions = ExampleList /\ vPrefix = <<"1">>) =>
               Labels = << <<"1", ".", "1", ".", "0">>, <<"1", ".", "0", ".", "0">> >>

\* More than 10 versions passed the filter, out of order, and the items are
\* the 10 greatest, from "1.11" down to "1.2".
C9_Witness ==
    /\ vPc = "done"
    /\ vSettled = "versions"
    /\ vVersions = ScrambledList
    /\ vPrefix = <<"1">>
    /\ Cardinality(Qualifying) > 10
    /\ Len(vItems) = 10
    /\ Labels[1] = <<"1", ".", "1", "1">>
    /\ Labels[10] = <<"1", ".", "2">>

(***************************************************************************)
(* C10  Version suggestions are shown latest first: of two items, the one  *)
(* with the greater version has the smaller sortText.                      *)
(***************************************************************************)
C10_LatestFirst ==
    \A i \in 1..Len(vItems), j \in 1..Len(vItems) :
        compareVersions(vItems[i].label, vItems[j].label) > 0 =>
            LexLess(vItems[i].sortText, vItems[j].sortText)


(***************************************************************************)
(* C11  Package suggestions rank by popularity: of two packages with       *)
(* different positive totalDownloads, the item of the one with more        *)
(* downloads has the smaller sortText; and the item of a package with no   *)
(* or zero totalDownloads has a greater sortText than the item of every    *)
(* package that has downloads.                                             *)
(***************************************************************************)
C11_PopularityOrder ==
    rankPc = "done" =>
        /\ ( /\ HasDownloads(pkgA) /\ HasDownloads(pkgB)
             /\ pkgA.totalDownloads[1] > pkgB.totalDownloads[1] ) =>
               LexLess(itemA.sortText, itemB.sortText)
        /\ (HasDownloads(pkgA) /\ ~HasDownloads(pkgB)) =>
               LexLess(itemA.sortText, itemB.sortText)

(***************************************************************************)
(* Vocabulary of the claims about provideCompletionItems.                  *)
(***************************************************************************)
\* The positions of the line after "#:package" that hold no white space.
PackageNamePositions(line) ==
    { i \in (Len(Chars("#:package")) + 1)..Len(line) : line[i] \notin {" ", "\t"} }

\* The line is "#:package", white space, and then nothing or an "@": its
\* package-name part is empty.
HasEmptyPackageName(line) ==
    /\ Len(line) > Len(Chars("#:package"))
    /\ SubSeq(line, 1, Len(Chars("#:package"))) = Chars("#:package")
    /\ line[Len(Chars("#:package")) + 1] \in {" ", "\t"}
    /\ \/ PackageNamePositions(line) = {}
       \/ line[Least(PackageNamePositions(line))] = "@"

\* This step is the start of a completion request.
CompletionStarted == rPc \in {"idle", "done"} /\ rLine' # <<>>

(***************************************************************************)
(* C12  The resolver never passes an empty query to the remote client: a   *)
(* completion request on a "#:package" prefix whose package-name part is   *)
(* empty resolves with no items in the step that starts it, without a call *)
(* of searchPackages and without a request; the query of every call of     *)
(* searchPackages is non-empty; and the package id of every version-index  *)
(* fetch, as passed and as put in the URL, is non-empty.                   *)
(***************************************************************************)
C12_ShortCircuitStep ==
    (CompletionStarted /\ HasEmptyPackageName(rLine')) =>
        /\ rPc' = "done"
        /\ rItems' = <<>>
        /\ pc' = pc
        /\ requested' = requested
        /\ vRequests' = vRequests
        /\ vCalls' = vCalls

C12_Arguments ==
    /\ \A c \in Calls : pc[c] # "idle" => query[c] # <<>>
    /\ vCalls > 0 => (vPackageId # <<>> /\ vUrlId # <<>>)

C12_NonEmptyQuery == [][C12_ShortCircuitStep]_vars /\ []C12_Arguments

\* After a search for "a-b" and a version fetch for "Js", the prefix
\* "#:package @1" resolved with no items, and no further call or request was
\* made.
C12_Witness ==
    /\ rPc = "done"
    /\ rLine = Chars("#:package @1")
    /\ rItems = <<>>
    /\ rCall = 0
    /\ requested = {1}
    /\ query[1] = Chars("a-b")
    /\ \A c \in Calls : c # 1 => pc[c] = "idle"
    /\ vCalls = 1
    /\ vRequests = 1
    /\ vPackageId = Chars("Js")

(***************************************************************************)
(* C13  Property-name completion: a completion request on "#:property "    *)
(* followed by a non-empty partial name of word characters is handed to    *)
(* getPropertyNameCompletions and resolves with one item for every entry   *)
(* of the property table whose name contains the partial name, letter case *)
(* ignored; "#:property Lang" suggests LangVersion.                        *)
(***************************************************************************)
PartialPropertyName(line) ==
    SubSeq(line, Len(Chars("#:property ")) + 1, Len(line))

IsPropertyNamePrefix(line) ==
    /\ Len(line) > Len(Chars("#:property "))
    /\ SubSeq(line, 1, Len(Chars("#:property "))) = Chars("#:property ")
    /\ \A i \in 1..Len(PartialPropertyName(line)) :
           IsWordChar(PartialPropertyName(line)[i])

ContainsIgnoreCase(name, partial) ==
    \E i \in 1..(Len(name) - Len(partial) + 1) :
        EqIgnoreCase(SubSeq(name, i, i + Len(partial) - 1), partial)

PropertiesContaining(partial) ==
    { i \in DOMAIN COMMON_PROPERTIES :
        ContainsIgnoreCase(Chars(COMMON_PROPERTIES[i].name), partial) }

C13_PropertyNameCompletion ==
    (rPc = "done" /\ IsPropertyNamePrefix(rLine)) =>
        /\ rRoute = "getPropertyNameCompletions"
        /\ Len(rItems) = Cardinality(PropertiesContaining(PartialPropertyName(rLine)))
        /\ \A i \in PropertiesContaining(PartialPropertyName(rLine)) :
               \E k \in 1..Len(rItems) : rItems[k].label = COMMON_PROPERTIES[i].name
        /\ rLine = Chars("#:property Lang") =>
               \E k \in 1..Len(rItems) : rItems[k].label = "LangVersion"

(***************************************************************************)
(* C14  A failed version fetch does not propagate: however the request for *)
(* the version index settles, the call of getVersionCompletions returns and *)
(* never rejects, and after a transport error, a timeout, a response       *)
(* without a versions array or a response without a usable body it returns *)
(* no items.                                                               *)
(***************************************************************************)
C14_FailureContained ==
    /\ vStatus # "rejected"
    /\ vPc = "done" =>
        /\ vStatus = "returned"
        /\ vSettled \in {"error", "timeout", "garbled", "no versions"} =>
               vItems = <<>>

\* Two calls in a row failed, the second on a response without a usable
\* body, and the second returned no items.
C14_Witness ==
    /\ vPc = "done"
    /\ vCalls = 2
    /\ vSettled = "garbled"
    /\ vStatus = "returned"
    /\ vItems = <<>>

(***************************************************************************)
(* Vocabulary of the claims about concurrent calls of searchPackages.      *)
(***************************************************************************)
\* The value of a map at a key, in a sequence of length 1, or the empty
\* sequence when the map has no such key.
EntryOf(m, k) == IF k \in DOMAIN m THEN << m[k] >> ELSE <<>>

\* The keys of either map before or after the step.
KeysAcrossStep ==
    (DOMAIN packageCache) \cup (DOMAIN cacheExpiry)
        \cup (DOMAIN packageCache') \cup (DOMAIN cacheExpiry')

\* Call c2 started while the request of call c1 was in flight.
Overlapped(c1, c2) ==
    /\ c1 < c2
    /\ c1 \in requested
    /\ pc[c2] # "idle"
    /\ c1 \notin doneBefore[c2]

(***************************************************************************)
(* C15  Cross-key independence.  A step of a call, its start or the        *)
(* settling of its request, with or without success, leaves the packages   *)
(* and the expiresAt of every key other than the call's own as they were;  *)
(* and what the call does is decided by the entry of its own key alone: it *)
(* is served exactly when that entry is present and not expired, with that *)
(* entry's packages, and a store writes the call's own result under its    *)
(* own key.                                                                *)
(***************************************************************************)
C15_OtherKeysStep ==
    \A c \in Calls :
        (Started(c) \/ Settled(c)) =>
            \A k \in KeysAcrossStep \ {toLowerCase(query'[c])} :
                /\ EntryOf(packageCache', k) = EntryOf(packageCache, k)
                /\ EntryOf(cacheExpiry', k) = EntryOf(cacheExpiry, k)

C15_OwnKeyStep ==
    \A c \in Calls :
        LET k == toLowerCase(query'[c])
        IN  /\ Started(c) =>
                /\ (outcome'[c] = "hit") <=>
                       /\ EntryOf(packageCache, k) # <<>>
                       /\ EntryOf(cacheExpiry, k) # <<>>
                       /\ EntryOf(cacheExpiry, k)[1] > clock
                /\ outcome'[c] = "hit" => << value'[c] >> = EntryOf(packageCache, k)
            /\ (Settled(c) /\ outcome'[c] = "stored") =>
                /\ EntryOf(packageCache', k) = << value'[c] >>
                /\ EntryOf(cacheExpiry', k) = << now[c] + CACHE_DURATION >>
            /\ (Settled(c) /\ outcome'[c] # "stored") =>
                /\ EntryOf(packageCache', k) = EntryOf(packageCache, k)
                /\ EntryOf(cacheExpiry', k) = EntryOf(cacheExpiry, k)

C15_CrossKeyIndependence == [][C15_OtherKeysStep /\ C15_OwnKeyStep]_vars

\* Two calls for different keys overlapped, both stored different results,
\* and each key holds the result and the expiresAt of its own call.
C15_Witness ==
    \E c1 \in Calls, c2 \in Calls :
        /\ Overlapped(c1, c2)
        /\ KeyOf(c1) # KeyOf(c2)
        /\ outcome[c1] = "stored"
        /\ outcome[c2] = "stored"
        /\ value[c1] # value[c2]
        /\ now[c1] # now[c2]
        /\ packageCache[KeyOf(c1)] = value[c1]
        /\ packageCache[KeyOf(c2)] = value[c2]
        /\ cacheExpiry[KeyOf(c1)] = now[c1] + CACHE_DURATION
        /\ cacheExpiry[KeyOf(c2)] = now[c2] + CACHE_DURATION

(***************************************************************************)
(* C16  Same-key atomic replacement.  In every state a key is in the       *)
(* package map exactly when it is in the expiry map, and its packages and  *)
(* expiresAt are the result and the start time plus 300000 ms of one call  *)
(* that stored; an entry changes only in the step in which a call for its  *)
(* key stores, and then both halves become those of that call, so the      *)
(* entry is always that of the store that ran last.                        *)
(***************************************************************************)
C16_WholeEntries ==
    /\ DOMAIN packageCache = DOMAIN cacheExpiry
    /\ \A k \in (DOMAIN packageCache) \cap (DOMAIN cacheExpiry) :
           \E c \in Calls :
               /\ outcome[c] = "stored"
               /\ KeyOf(c) = k
               /\ packageCache[k] = value[c]
               /\ cacheExpiry[k] = now[c] + CACHE_DURATION

C16_ReplaceStep ==
    \A k \in KeysAcrossStep :
        ( \/ EntryOf(packageCache', k) # EntryOf(packageCache, k)
          \/ EntryOf(cacheExpiry', k) # EntryOf(cacheExpiry, k) ) =>
            \E c \in Calls :
                /\ Settled(c)
                /\ outcome'[c] = "stored"
                /\ KeyOf(c) = k
                /\ EntryOf(packageCache', k) = << value'[c] >>
                /\ EntryOf(cacheExpiry', k) = << now[c] + CACHE_DURATION >>

C16_AtomicReplacement == []C16_WholeEntries /\ [][C16_ReplaceStep]_vars

\* Two calls for one key overlapped and both stored, with different results
\* and start times; the one that started first stored last, and the entry
\* holds its result with its expiresAt.
C16_Witness ==
    \E c1 \in Calls, c2 \in Calls :
        /\ Overlapped(c1, c2)
        /\ KeyOf(c1) = KeyOf(c2)
        /\ outcome[c1] = "stored"
        /\ outcome[c2] = "stored"
        /\ value[c1] # value[c2]
        /\ now[c1] < now[c2]
        /\ packageCache[KeyOf(c1)] = value[c1]
        /\ cacheExpiry[KeyOf(c1)] = now[c1] + CACHE_DURATION

C17_StartStep ==
    \A c \in Calls :
        Started(c) =>
            LET k == toLowerCase(query'[c])
                inFlight == \E d \in Calls : pc[d] = "awaiting" /\ KeyOf(d) = k
            IN  /\ requested' = IF EntryLive(k) THEN requested
                                ELSE requested \cup {c}
                /\ c \notin requested
                /\ (inFlight /\ ~EntryPresent(k)) => c \in requested'

C17_AfterStore ==
    \A c1 \in Calls, c2 \in requested :
        ( /\ c1 \in doneBefore[c2]
          /\ outcome[c1] = "stored"
          /\ KeyOf(c1) = KeyOf(c2)
          /\ OnlyCallsFor(KeyOf(c1), c1, c2) ) =>
            now[c2] >= now[c1] + CACHE_DURATION

C18_TablesAgree ==
    hPc = "done" =>
        /\ (hSdkInfo # <<>>) <=>
               \E i \in DOMAIN COMMON_SDKS : Chars(COMMON_SDKS[i].id) = hSdkId
        /\ \A i \in DOMAIN COMMON_SDKS :
               Chars(COMMON_SDKS[i].id) = hSdkId =>
                   /\ hSdkInfo[1].id = COMMON_SDKS[i].id
                   /\ hSdkInfo[1].displayName = COMMON_SDKS[i].displayName
                   /\ hSdkInfo[1].description = COMMON_SDKS[i].description
                   /\ hSdkInfo[1].defaultTargetFramework
                          = COMMON_SDKS[i].defaultTargetFramework
        /\ (hPropertyInfo # <<>>) <=>
               \E i \in DOMAIN COMMON_PROPERTIES :
                   Chars(COMMON_PROPERTIES[i].name) = hPropertyName
        /\ \A i \in DOMAIN COMMON_PROPERTIES :
               Chars(COMMON_PROPERTIES[i].name) = hPropertyName =>
                   /\ hPropertyInfo[1].name = COMMON_PROPERTIES[i].name
                   /\ hPropertyInfo[1].description = COMMON_PROPERTIES[i].description
                   /\ hPropertyInfo[1].possibleValues
                          = COMMON_PROPERTIES[i].possibleValues
                   /\ hPropertyInfo[1].defaultValue
                          = COMMON_PROPERTIES[i].defaultValue

\* The hover provider found "Microsoft.NET.Sdk" with its default target
\* framework and "TargetFramework" with its seven values and its default.
C18_Witness ==
    /\ hPc = "done"
    /\ hSdkId = Chars("Microsoft.NET.Sdk")
    /\ hSdkInfo # <<>>
    /\ hSdkInfo[1].displayName = "Console/Library SDK"
    /\ hSdkInfo[1].defaultTargetFramework = << "net10.0" >>
    /\ hPropertyName = Chars("TargetFramework")
    /\ hPropertyInfo # <<>>
    /\ Len(hPropertyInfo[1].possibleValues[1]) = 7
    /\ hPropertyInfo[1].defaultValue = << "net10.0" >>

(***************************************************************************)
(* C19  Downloads affect ranking only.  When the search request of a       *)
(* package-name completion succeeds with n records, the completion         *)
(* resolves with n items, the i-th with the id of the i-th record as label *)
(* and "<id>@<version>" of that record as insert text; and the same        *)
(* records with any other totalDownloads give items with the same labels   *)
(* and insert texts at the same positions.                                 *)
(***************************************************************************)
\* The records of a data array with the totalDownloads replaced.
WithDownloads(data, downloads) ==
    [i \in 1..Len(data) |-> [data[i] EXCEPT !.totalDownloads = downloads[i]]]

C19_RankingOnly ==
    ( /\ rPc = "done"
      /\ rRoute = "getPackageCompletions"
      /\ rCall # 0
      /\ outcome[rCall] = "stored" ) =>
        /\ Len(rItems) = Len(rData)
        /\ \A i \in 1..Len(rData) :
               /\ rItems[i].label = rData[i].id
               /\ rItems[i].insertText = rData[i].id \o "@" \o rData[i].version
        /\ \A downloads \in [1..Len(rData) -> DownloadCounts] :
               LET others == PackageItems(MapItems(WithDownloads(rData, downloads)))
               IN  /\ Len(others) = Len(rItems)
                   /\ \A i \in 1..Len(rItems) :
                          /\ others[i].label = rItems[i].label
                          /\ others[i].insertText = rItems[i].insertText

\* The response listed Json, without downloads, before Humanizer, with 500:
\* the items are in that order although the sort text of the second is the
\* smaller.
C19_Witness ==
    /\ rPc = "done"
    /\ rRoute = "getPackageCompletions"
    /\ rCall # 0
    /\ outcome[rCall] = "stored"
    /\ rData = << Item2, Item1 >>
    /\ Len(rItems) = 2
    /\ rItems[1].insertText = "Json@13.0.3"
    /\ rItems[2].insertText = "Humanizer@2.14.1"
    /\ LexLess(rItems[2].sortText, rItems[1].sortText)

(***************************************************************************)
(* C20  Version lists are never cached.  Every call of                     *)
(* getVersionCompletions issues a request of its own, a call with the      *)
(* arguments of the call before it included, so there are as many requests *)
(* as calls; and no step of a call, its start or the settling of its       *)
(* request, with or without success, changes the package map or the expiry *)
(* map, whose entry for the package id, if any, is not used.               *)
(***************************************************************************)
C20_RequestPerCall ==
    /\ vRequests = vCalls
    /\ vRepeat => vRequests >= 2

C20_VersionStep ==
    (vCalls' # vCalls \/ vPc' # vPc) =>
        /\ packageCache' = packageCache
        /\ cacheExpiry' = cacheExpiry
        /\ vCalls' # vCalls =>
               /\ vCalls' = vCalls + 1
               /\ vRequests' = vRequests + 1
               /\ vPc' = "awaiting"

C20_NeverCached == []C20_RequestPerCall /\ [][C20_VersionStep]_vars

\* With the search result of "js" in the cache, the versions of "Js" were
\* completed twice in a row with the same arguments: two requests were
\* issued and the cache is as the search left it.
C20_Witness ==
    /\ vPc = "done"
    /\ vRepeat
    /\ vPackageId = Chars("Js")
    /\ vSettled = "versions"
    /\ vCalls = 2
    /\ vRequests = 2
    /\ rItems # <<>>
    /\ EntryLive(Chars("js"))
    /\ packageCache[Chars("js")] = TwoPackages
    /\ DOMAIN cacheExpiry = { Chars("js") }

(***************************************************************************)
(* C21  No eviction.  No step removes a key from the package map or from   *)
(* the expiry map, whether time passes beyond the entry's expiresAt, a     *)
(* call for the key starts, or its request fails; so the key of every call *)
(* that stored stays in both maps.  The entry of a key that is already     *)
(* cached changes only in the step in which the request of a call for that *)
(* key succeeds, and then it becomes that call's result.                   *)
(***************************************************************************)
C21_KeysStep ==
    /\ (DOMAIN packageCache) \subseteq (DOMAIN packageCache')
    /\ (DOMAIN cacheExpiry) \subseteq (DOMAIN cacheExpiry')

C21_OverwriteStep ==
    \A k \in (DOMAIN packageCache) \cup (DOMAIN cacheExpiry) :
        ( \/ EntryOf(packageCache', k) # EntryOf(packageCache, k)
          \/ EntryOf(cacheExpiry', k) # EntryOf(cacheExpiry, k) ) =>
            \E c \in Calls :
                /\ Settled(c)
                /\ KeyOf(c) = k
                /\ status'[c] = "returned"
                /\ outcome'[c] = "stored"
                /\ storedAt'[k] = clock
                /\ EntryOf(packageCache', k) = << value'[c] >>

C21_StoredKeysRemain ==
    \A c \in Calls :
        outcome[c] = "stored" =>
            /\ KeyOf(c) \in DOMAIN packageCache
            /\ KeyOf(c) \in DOMAIN cacheExpiry
            /\ KeyOf(c) \in DOMAIN storedAt

C21_NoEviction ==
    [][C21_KeysStep /\ C21_OverwriteStep]_vars /\ []C21_StoredKeysRemain

\* A call stored an entry, the clock went past the entry's expiresAt, a later
\* call for the same key missed and its request failed, and the expired
\* entry is still in both maps with the first call's result.
C21_Witness ==
    \E c1 \in Calls, c2 \in Calls :
        /\ c1 \in doneBefore[c2]
        /\ KeyOf(c1) = KeyOf(c2)
        /\ outcome[c1] = "stored"
        /\ outcome[c2] = "failed"
        /\ EntryPresent(KeyOf(c1))
        /\ cacheExpiry[KeyOf(c1)] <= clock
        /\ packageCache[KeyOf(c1)] = value[c1]
        /\ value[c1] # <<>>

(***************************************************************************)
(* Vocabulary of the claim about property-value completion.                *)
(***************************************************************************)
\* The name and the value prefix of a line prefix of the shape
\* `#:property <Name> <valuePrefix>`, in a sequence of length 1: the
\* directive, white space, a non-empty word, white space, and the rest of
\* the line as the value prefix.  The empty sequence for any other line.
PropertyValueLine(line) ==
    LET head == Chars("#:property")
        n == Len(line)
        names == { ij \in (1..n) \X (1..n) :
                     /\ StartsWith(line, head)
                     /\ Len(head) + 1 < ij[1]
                     /\ ij[1] <= ij[2]
                     /\ ij[2] < n
                     /\ \A x \in (Len(head) + 1)..(ij[1] - 1) : line[x] = " "
                     /\ \A x \in ij[1]..ij[2] : IsWordChar(line[x])
                     /\ line[ij[2] + 1] = " " }
    IN  IF names = {} THEN <<>>
        ELSE LET ij == CHOOSE x \in names : TRUE
                 rest == { k \in (ij[2] + 1)..n : line[k] # " " }
                 from == IF rest = {} THEN n + 1 ELSE Least(rest)
             IN  << [name |-> SubSeq(line, ij[1], ij[2]),
                     valuePrefix |-> SubSeq(line, from, n)] >>

PropertyValueLineOf == [line \in LinePrefixes |-> PropertyValueLine(line)]

\* The positions of the table entries with exactly this name.
PropertiesNamed(name) ==
    { i \in 1..Len(COMMON_PROPERTIES) : Chars(COMMON_PROPERTIES[i].name) = name }

\* Value v starts with prefix p, letters compared without regard to case.
StartsWithIgnoreCase(v, p) ==
    Len(p) <= Len(v) /\ EqIgnoreCase(SubSeq(v, 1, Len(p)), p)

\* The positions in the possibleValues of a table entry that qualify for
\* the value prefix.
QualifyingValues(property, valuePrefix) ==
    IF property.possibleValues = <<>> THEN {}
    ELSE { i \in 1..Len(property.possibleValues[1]) :
             StartsWithIgnoreCase(Chars(property.possibleValues[1][i]),
                                  valuePrefix) }

\* The i-th smallest member of a set of numbers.
RECURSIVE NthOf(_, _)
NthOf(S, i) == IF i = 1 THEN Least(S) ELSE NthOf(S \ {Least(S)}, i - 1)

(***************************************************************************)
(* C22  Property-value completion.  A completed request for a line prefix  *)
(* `#:property <Name> <valuePrefix>` was answered by                       *)
(* getPropertyValueCompletions.  If no table entry has exactly the name,   *)
(* letter case included, there are no items.  Otherwise there is one item  *)
(* for each of the entry's possible values that starts with the value      *)
(* prefix, letters compared without regard to case, and no other item; the *)
(* items are in the order of the table; each inserts its value; and the    *)
(* detail of an item ends in "(default)" exactly when its value is the     *)
(* entry's default value.                                                  *)
(***************************************************************************)
C22_PropertyValueCompletion ==
    (rPc = "done" /\ rLine \in LinePrefixes /\ PropertyValueLineOf[rLine] # <<>>) =>
        LET req == PropertyValueLineOf[rLine][1]
            named == PropertiesNamed(req.name)
        IN  /\ rRoute = "getPropertyValueCompletions"
            /\ named = {} => rItems = <<>>
            /\ named # {} =>
                 LET property == COMMON_PROPERTIES[Least(named)]
                     q == QualifyingValues(property, req.valuePrefix)
                 IN  /\ Cardinality(named) = 1
                     /\ Len(rItems) = Cardinality(q)
                     /\ \A i \in 1..Len(rItems) :
                          LET v == property.possibleValues[1][NthOf(q, i)]
                          IN  /\ rItems[i].label = v
                              /\ rItems[i].insertText = v
                              /\ rItems[i].detail =
                                   IF << v >> = property.defaultValue
                                   THEN property.name \o " value (default)"
                                   ELSE property.name \o " value"

\* A completed request whose value prefix has a capital letter where the
\* values have a small one, answered with two or more but not all of the
\* property's values.
C22_Witness ==
    /\ rPc = "done"
    /\ rLine \in LinePrefixes
    /\ PropertyValueLineOf[rLine] # <<>>
    /\ LET req == PropertyValueLineOf[rLine][1]
           named == PropertiesNamed(req.name)
       IN  /\ named # {}
           /\ ~IsLowerCase(req.valuePrefix)
           /\ Len(rItems) >= 2
           /\ Len(rItems) < Len(COMMON_PROPERTIES[Least(named)].possibleValues[1])
           /\ \A i \in 1..Len(rItems) :
                  ~StartsWith(Chars(rItems[i].label), req.valuePrefix)

(***************************************************************************)
(* C23  A zero-result success is cached, a failure is not.  The settling   *)
(* of a request resolves the call with the empty sequence both when the    *)
(* response has an empty data array and when the request fails; the first  *)
(* writes an entry with the empty sequence and the call's start time plus  *)
(* 300000 ms under the call's key, the second leaves both maps as they     *)
(* were.  Of two calls for one key made one after the other, with no other *)
(* call for the key: when the first stored the empty sequence and the      *)
(* second starts before that entry's expiresAt, the second issues no       *)
(* request and returns the empty sequence from the cache; when the first   *)
(* failed, the key has no entry and the second issues a request.           *)
(***************************************************************************)
C23_SettleStep ==
    \A c \in Calls :
        (Settled(c) /\ value'[c] = <<>>) =>
            /\ status'[c] = "returned"
            /\ outcome'[c] \in {"stored", "failed"}
            /\ outcome'[c] = "stored" =>
                 /\ EntryOf(packageCache', KeyOf(c)) = << <<>> >>
                 /\ EntryOf(cacheExpiry', KeyOf(c)) = << now[c] + CACHE_DURATION >>
            /\ outcome'[c] = "failed" =>
                 /\ packageCache' = packageCache
                 /\ cacheExpiry' = cacheExpiry

C23_LaterCall ==
    \A c1 \in Calls, c2 \in Calls :
        ( /\ c1 \in doneBefore[c2]
          /\ KeyOf(c1) = KeyOf(c2)
          /\ OnlyCallsFor(KeyOf(c1), c1, c2)
          /\ value[c1] = <<>> ) =>
            /\ (outcome[c1] = "stored" /\ now[c2] < now[c1] + CACHE_DURATION) =>
                 /\ c2 \notin requested
                 /\ outcome[c2] = "hit"
                 /\ status[c2] = "returned"
                 /\ value[c2] = <<>>
                 /\ EntryPresent(KeyOf(c1))
            /\ outcome[c1] = "failed" =>
                 /\ c2 \in requested
                 /\ (pc[c2] = "awaiting" => ~EntryPresent(KeyOf(c1)))

C23_EmptyResultCached == [][C23_SettleStep]_vars /\ []C23_LaterCall

\* A request was answered with an empty data array some time after the call
\* started, and a later call for the same key, started later still but
\* before the entry's expiresAt, was served the empty sequence from the
\* cache: one request was issued for the key.
C23_Witness ==
    \E c1 \in Calls, c2 \in Calls :
        /\ c1 \in doneBefore[c2]
        /\ KeyOf(c1) = KeyOf(c2)
        /\ query[c1] # query[c2]
        /\ outcome[c1] = "stored"
        /\ value[c1] = <<>>
        /\ now[c1] < storedAt[KeyOf(c1)]
        /\ storedAt[KeyOf(c1)] < now[c2]
        /\ now[c2] < cacheExpiry[KeyOf(c1)]
        /\ outcome[c2] = "hit"
        /\ value[c2] = <<>>
        /\ RequestsFor(KeyOf(c1)) = 1

(***************************************************************************)
(* Vocabulary of the claim about invocations in flight together.           *)
(***************************************************************************)
\* Invocation i is waiting for its request.
InFlight(i) == cPc[i] \in {"awaitSearch", "awaitVersions"}

\* This step is the start of invocation i.
Invoked(i) == cPc[i] = "idle" /\ cPc'[i] # "idle"

\* A line prefix that makes provideCompletionItems issue a request now: a
\* package id with a version part, or a non-empty package name whose key has
\* no entry that is present and not expired.
NeedsRequest(linePrefix) ==
    \/ RouteOf[linePrefix].helper = "getVersionCompletions"
    \/ /\ RouteOf[linePrefix].helper = "getPackageCompletions"
       /\ RouteOf[linePrefix].arg1 # <<>>
       /\ ~EntryLive(toLowerCase(RouteOf[linePrefix].arg1))

\* A finite sequence of completion items.
IsItemList(items) == DOMAIN items = 1..Len(items)

(***************************************************************************)
(* C24  Every completion request finishes.  With every remote request      *)
(* settling, by a response or by a failure such as the timeout, every      *)
(* invocation of provideCompletionItems that has started leads to a state  *)
(* where it has resolved.  No invocation ever rejects; one that is done    *)
(* has resolved with a list of items, possibly empty, and one that is not  *)
(* done is pending.  An invocation that needs no request resolves in the   *)
(* step in which it starts, whatever else is in flight.  An invocation     *)
(* waits for nothing but its own request: while it is in flight, every     *)
(* outcome of its request can be delivered at once, and the next           *)
(* invocation can start on any line prefix, whatever the other invocations *)
(* are doing; and a step of one invocation leaves the others as they were. *)
(***************************************************************************)
C24_Resolved ==
    \A i \in Invocations :
        /\ cStatus[i] # "rejected"
        /\ cPc[i] = "done" <=> cStatus[i] = "resolved"
        /\ cPc[i] # "done" => cStatus[i] = "pending"
        /\ IsItemList(cItems[i])
        /\ cPc[i] # "idle" => cLine[i] \in LinePrefixes

C24_NoWaiting ==
    \A i \in Invocations :
        /\ cPc[i] = "awaitSearch" =>
               \A resp \in SearchOutcomes : ENABLED SearchAnswered(i, resp)
        /\ cPc[i] = "awaitVersions" =>
               \A resp \in VersionOutcomes : ENABLED VersionsAnswered(i, resp)
        /\ (cPc[i] = "idle" /\ \A j \in Invocations : j < i => cPc[j] # "idle") =>
               \A linePrefix \in LinePrefixes :
                   ENABLED ( \/ InvokePackage(i, linePrefix)
                             \/ InvokeVersion(i, linePrefix)
                             \/ InvokeStatic(i, linePrefix) )

C24_Step ==
    \A i \in Invocations :
        /\ Invoked(i) =>
               /\ cPc'[i] = "done" <=> ~NeedsRequest(cLine'[i])
               /\ \A j \in Invocations \ {i} :
                      /\ cPc'[j] = cPc[j]
                      /\ cStatus'[j] = cStatus[j]
                      /\ cItems'[j] = cItems[j]
        /\ (InFlight(i) /\ cPc'[i] = "done") =>
               \A j \in Invocations \ {i} :
                   /\ cPc'[j] = cPc[j]
                   /\ cStatus'[j] = cStatus[j]
                   /\ cItems'[j] = cItems[j]

C24_Finishes ==
    \A i \in Invocations :
        (cPc[i] # "idle") ~> (cPc[i] = "done" /\ cStatus[i] = "resolved")

C24_EveryRequestFinishes ==
    /\ []C24_Resolved
    /\ []C24_NoWaiting
    /\ [][C24_Step]_vars
    /\ C24_Finishes

\* An invocation that started while an earlier one was waiting for its
\* search request has resolved with items from a request of its own for the
\* same key, and the earlier one is still waiting.
C24_Witness ==
    \E i \in Invocations, j \in Invocations :
        /\ i < j
        /\ cPc[i] = "awaitSearch"
        /\ cPc[j] = "done"
        /\ cStatus[j] = "resolved"
        /\ RouteOf[cLine[j]].helper = "getPackageCompletions"
        /\ toLowerCase(RouteOf[cLine[j]].arg1) = toLowerCase(RouteOf[cLine[i]].arg1)
        /\ cItems[j] # <<>>

(***************************************************************************)
(* C25  Staleness bound.  In the step in which a call is served from the   *)
(* cache, the entry it is served is the result of a call for the same key  *)
(* that had stored before: the served packages are that call's result, the *)
(* entry's expiresAt is that call's start time plus 300000 ms, and that    *)
(* call started less than 300000 ms before the time of the hit.  This      *)
(* holds however long the request of the storing call took and whichever   *)
(* of several calls for the key stored last.                               *)
(***************************************************************************)
C25_HitStep ==
    \A h \in Calls :
        (Started(h) /\ outcome'[h] = "hit") =>
            LET k == toLowerCase(query'[h])
            IN  /\ now'[h] = clock
                /\ EntryPresent(k)
                /\ value'[h] = packageCache[k]
                /\ now'[h] < cacheExpiry[k]
                /\ \E c \in Calls :
                       /\ pc[c] = "done"
                       /\ outcome[c] = "stored"
                       /\ KeyOf(c) = k
                       /\ value[c] = packageCache[k]
                       /\ cacheExpiry[k] = now[c] + CACHE_DURATION
                       /\ now[c] <= storedAt[k]
                       /\ storedAt[k] <= now'[h]
                       /\ now'[h] - now[c] < CACHE_DURATION
                /\ \A c \in Calls :
                       ( /\ outcome[c] = "stored"
                         /\ KeyOf(c) = k
                         /\ cacheExpiry[k] = now[c] + CACHE_DURATION ) =>
                           now'[h] - now[c] < CACHE_DURATION

=============================================================================
